---- MODULE Spec2Model ----
(***************************************************************************)
(* State-machine model of the flight tracker backend (app.py): the TTL     *)
(* cache get_cached_or_fetch, the metadata fallback chain                  *)
(* (AeroDataBox -> hexdb -> adsbexchange -> OpenSky CSV), the request      *)
(* handlers /api/aircraft/details and /api/aircraft, the notification gate *)
(* (format_flight_notification, notify_new_aircraft), the display client   *)
(* (vestaboard_api.py) and the poller (auto_detection.py).                 *)
(*                                                                         *)
(* Python values are encoded as follows.  A dict is a function whose       *)
(* domain is a set of strings (a record); d.get(k) is Get(d, k).  The      *)
(* object None is the record None; a None in a string field is the string  *)
(* NULL.  An optional number is a sequence of length 0 (None) or 1.        *)
(***************************************************************************)
EXTENDS Integers, Sequences, FiniteSets, TLC

VARIABLES
    now,                     \* time.time(), in seconds
    cache,                   \* app.cache: cache_key -> (data, timestamp)
    aircraft_metadata_cache, \* app.aircraft_metadata_cache: icao24 -> metadata
    opensky_csv_db,          \* app.opensky_csv_db: None until first loaded
    csv_file,                \* content of aircraftDatabase.csv on disk
    fetch_log,               \* history: per cache key, the last call that fetched and stored
    last,                    \* observation of the last call or request handled
    tracked_aircraft,        \* app.tracked_aircraft: identifiers the server has notified
    VESTABOARD_ENABLED,      \* app.VESTABOARD_ENABLED
    notified_aircraft,       \* auto_detection.notified_aircraft: the poller's set
    display,                 \* history: per identifier, the notifications the display accepted
    board,                   \* the 6 x 22 grid of character codes the display shows
    threads                  \* the notify requests in progress on the server's threads

cache_vars == <<cache, aircraft_metadata_cache, opensky_csv_db, csv_file, fetch_log>>

notify_vars ==
    <<tracked_aircraft, VESTABOARD_ENABLED, notified_aircraft, display, board, threads>>

vars == <<now, cache, aircraft_metadata_cache, opensky_csv_db, csv_file, fetch_log, last,
          tracked_aircraft, VESTABOARD_ENABLED, notified_aircraft, display, board, threads>>

(***************************************************************************)
(* Constants of the program and bounds of the model.                       *)
(***************************************************************************)
CACHE_DURATION == 300

MaxNow == 450

TickStep == 150

NULL == "null"

None == [py_none |-> TRUE]

EmptyDict == [k \in {} |-> NULL]

\* d.get(k) for a dict d with string values
Get(d, k) == IF k \in DOMAIN d THEN d[k] ELSE NULL

\* d[k] = v
Put(d, k, v) == [x \in DOMAIN d \cup {k} |-> IF x = k THEN v ELSE d[x]]

\* truthiness of a dict-or-None value
TruthyDict(d) == d # None /\ DOMAIN d # {}

\* truthiness of a string-or-None field
TruthyStr(v) == v # NULL /\ v # ""

(***************************************************************************)
(* Upstream HTTP responses.  kind is "response" (with a status and a JSON  *)
(* body), "timeout", "connection_error" or "no_credentials".               *)
(***************************************************************************)
Response(status, body) == [kind |-> "response", status |-> status, body |-> body]

Failure(kind) == [kind |-> kind, status |-> 0, body |-> None]

\* the answer with status 404
NotFound == Response(404, None)

\* result of a Python call: a returned value or a raised exception
Returned(v) == [raised |-> FALSE, value |-> v, error |-> ""]

Raised(msg) == [raised |-> TRUE, value |-> None, error |-> msg]

\* one recorded step of a request: a cache hit ("hit"), an upstream fetch made by
\* get_cached_or_fetch ("fetch"), a public registry call ("registry"), a lookup in
\* the CSV ("csv") or in aircraft_metadata_cache ("metadata_cache"), a direct read
\* of a cache entry ("peek").  age is the age of the cache entry read; yield is
\* "record", "absent", "no_useful_field" or "error"; value is what was obtained.
Ev(kind, src, key, age, yield, value) ==
    [kind |-> kind, src |-> src, key |-> key, age |-> age, yield |-> yield, value |-> value]

NoKey == <<"", "">>

(***************************************************************************)
(* make_aerodatabox_request: the value returned or the exception raised    *)
(* for one upstream answer.                                                *)
(***************************************************************************)
make_aerodatabox_request(r) ==
    IF r.kind = "no_credentials" THEN Raised("AeroDataBox API credentials not loaded")
    ELSE IF r.kind = "timeout" THEN Raised("Request to AeroDataBox API timed out")
    ELSE IF r.kind = "connection_error" THEN Raised("Failed to connect to AeroDataBox API")
    ELSE IF r.status = 401 \/ r.status = 403 THEN Raised("Invalid AeroDataBox API credentials")
    ELSE IF r.status = 429 THEN Raised("Rate limit exceeded. Please try again later.")
    ELSE IF r.status = 404 THEN Returned(None)
    ELSE IF r.status # 200 THEN Raised("AeroDataBox API error")
    ELSE Returned(r.body)

(***************************************************************************)
(* get_cached_or_fetch.  fetch_result is what the fetch function does      *)
(* if it is invoked; it is invoked only when the entry is absent or        *)
(* expired.                                                                *)
(***************************************************************************)
is_fresh_le(t, timestamp) == t - timestamp <= CACHE_DURATION

is_fresh(t, timestamp) == t - timestamp < CACHE_DURATION

cache_store_unless_none(c, cache_key, data, t) ==
    IF data = None THEN c ELSE Put(c, cache_key, [data |-> data, timestamp |-> t])

\* a store that writes the value but leaves the timestamp of an entry already there
cache_store_value_only(c, cache_key, data, t) ==
    Put(c, cache_key, [data |-> data,
                       timestamp |-> IF cache_key \in DOMAIN c THEN c[cache_key].timestamp ELSE t])

cache_store(c, cache_key, data, t) == Put(c, cache_key, [data |-> data, timestamp |-> t])

\* a get_cached_or_fetch that remembers a failed fetch as an entry without a value
get_cached_or_fetch_caching_errors(c, cache_key, t, fetch_result) ==
    IF cache_key \in DOMAIN c /\ is_fresh(t, c[cache_key].timestamp)
    THEN [cache |-> c, raised |-> FALSE, value |-> c[cache_key].data,
          error |-> "", fetched |-> FALSE]
    ELSE IF fetch_result.raised
    THEN [cache |-> cache_store(c, cache_key, None, t), raised |-> TRUE, value |-> None,
          error |-> fetch_result.error, fetched |-> TRUE]
    ELSE [cache |-> cache_store(c, cache_key, fetch_result.value, t), raised |-> FALSE,
          value |-> fetch_result.value, error |-> "", fetched |-> TRUE]

get_cached_or_fetch(c, cache_key, t, fetch_result) ==
    IF cache_key \in DOMAIN c /\ is_fresh(t, c[cache_key].timestamp)
    THEN [cache |-> c, raised |-> FALSE, value |-> c[cache_key].data,
          error |-> "", fetched |-> FALSE]
    ELSE IF fetch_result.raised
    THEN [cache |-> c, raised |-> TRUE, value |-> None,
          error |-> fetch_result.error, fetched |-> TRUE]
    ELSE [cache |-> cache_store(c, cache_key, fetch_result.value, t), raised |-> FALSE,
          value |-> fetch_result.value, error |-> "", fetched |-> TRUE]

\* the steps a get_cached_or_fetch call adds to the record of a request
yield_of(g) ==
    IF g.raised THEN "error" ELSE IF TruthyDict(g.value) THEN "record" ELSE "absent"

cache_events(c, cache_key, t, src, g) ==
    IF g.fetched THEN <<Ev("fetch", src, cache_key, 0, yield_of(g), g.value)>>
    ELSE <<Ev("hit", src, cache_key, t - c[cache_key].timestamp, yield_of(g), g.value)>>

\* history: the last call per key whose fetch returned and was stored
log_fetch(log, cache_key, t, g) ==
    IF g.fetched /\ ~g.raised THEN Put(log, cache_key, [at |-> t, value |-> g.value]) ELSE log

(***************************************************************************)
(* Cache keys.                                                             *)
(***************************************************************************)
details_cache_key(icao24) == <<"aircraft_details", icao24>>

flight_cache_key(icao24) == <<"aircraft_flight", icao24>>

airport_cache_key(icao_code) == <<"airport", icao_code>>

(***************************************************************************)
(* Initial state: the module-level globals of app.py.                      *)
(***************************************************************************)
Idle(op) == [op |-> op, key |-> NoKey, icao24 |-> "", raised |-> FALSE, status |-> 0,
             body |-> None, calls |-> <<>>]

ICAO24S == {"4ca7b3"}

CsvRow(icao24, man, mdl, reg, op, serial) ==
    [icao24 |-> icao24, manufacturername |-> man, model |-> mdl, registration |-> reg,
     operator |-> op, serialnumber |-> serial]

CsvFiles ==
    { EmptyDict,
      [i \in ICAO24S |-> CsvRow(i, "Airbus", "A320", "EI-DEO", "", "")] }

\* the module globals of app.py and auto_detection.py when the processes start
InitGlobals ==
    /\ now = 0
    /\ cache = EmptyDict
    /\ aircraft_metadata_cache = EmptyDict
    /\ opensky_csv_db = None
    /\ csv_file \in CsvFiles
    /\ fetch_log = EmptyDict
    /\ tracked_aircraft = {}
    /\ VESTABOARD_ENABLED = FALSE
    /\ notified_aircraft = {}
    /\ display = EmptyDict
    /\ board = [row \in 1..6 |-> [column \in 1..22 |-> 0]]
    /\ threads = EmptyDict

Init == InitGlobals /\ last = Idle("init")

(***************************************************************************)
(* Time passes between requests.                                           *)
(***************************************************************************)
Tick(d) ==
    /\ now + d <= MaxNow
    /\ now' = now + d
    /\ last' = Idle("tick")
    /\ UNCHANGED <<cache, aircraft_metadata_cache, opensky_csv_db, csv_file, fetch_log>>
    /\ UNCHANGED notify_vars

(***************************************************************************)
(* A direct call get_cached_or_fetch(cache_key, fetch_function, arg) with  *)
(* one of the AeroDataBox fetch functions.                                 *)
(***************************************************************************)
AircraftBody(model, manufacturer, registration, operator) ==
    [model |-> model, manufacturer |-> manufacturer, registration |-> registration,
     operator |-> operator]

CallKeys == {details_cache_key("4ca7b3"), airport_cache_key("EGLL")}

CallResponses ==
    { Response(200, AircraftBody("737", NULL, NULL, NULL)),
      Response(200, EmptyDict),
      Response(404, None),
      Response(500, None),
      Failure("timeout") }

CallGetCachedOrFetch(cache_key, r) ==
    LET g == get_cached_or_fetch(cache, cache_key, now, make_aerodatabox_request(r))
    IN  /\ cache' = g.cache
        /\ fetch_log' = log_fetch(fetch_log, cache_key, now, g)
        /\ last' = [op |-> "get_cached_or_fetch", key |-> cache_key, icao24 |-> "",
                    raised |-> g.raised, status |-> 0, body |-> g.value,
                    calls |-> cache_events(cache, cache_key, now, "aerodatabox", g)]
        /\ UNCHANGED <<now, aircraft_metadata_cache, opensky_csv_db, csv_file>>
        /\ UNCHANGED notify_vars

NextCache ==
    \/ \E d \in {TickStep - 1, TickStep + 1} : Tick(d)
    \/ \E k \in CallKeys, r \in CallResponses : CallGetCachedOrFetch(k, r)

SpecCache == Init /\ [][NextCache]_vars

(***************************************************************************)
(* The public registries, in the order of the PUBLIC_APIS list.            *)
(***************************************************************************)
PUBLIC_APIS_reversed == <<"adsbexchange", "hexdb">>

PUBLIC_APIS == <<"hexdb", "adsbexchange">>

\* the record built from a hexdb answer {"aircraft": {...}}
hexdb_record(aircraft) ==
    [manufacturer |-> Get(aircraft, "manufacturer"),
     model |-> Get(aircraft, "type"),
     registration |-> Get(aircraft, "registration"),
     operator |-> Get(aircraft, "operator"),
     serialNumber |-> Get(aircraft, "serial_number")]

\* the record built from one entry of an adsbexchange acList
adsbexchange_record(ac) ==
    [manufacturer |-> Get(ac, "Man"),
     model |-> Get(ac, "Mdl"),
     registration |-> Get(ac, "Reg"),
     operator |-> Get(ac, "Op"),
     serialNumber |-> Get(ac, "Sqk")]

\* the first entry of acList whose Icao is icao24, or None
RECURSIVE first_matching_ac(_, _, _)
first_matching_ac(acList, i, icao24) ==
    IF i > Len(acList) THEN None
    ELSE IF Get(acList[i], "Icao") = icao24 THEN adsbexchange_record(acList[i])
    ELSE first_matching_ac(acList, i + 1, icao24)

\* one iteration of the loop over PUBLIC_APIS: the record returned, or None
\* when the loop goes on (non-200 answer, unknown shape, exception caught)
parse_public_api(name, icao24, r) ==
    IF r.kind # "response" THEN None
    ELSE IF r.status # 200 THEN None
    ELSE IF name = "hexdb" /\ "aircraft" \in DOMAIN r.body THEN hexdb_record(r.body.aircraft)
    ELSE IF name = "adsbexchange" /\ "acList" \in DOMAIN r.body
         THEN first_matching_ac(r.body.acList, 1, icao24)
    ELSE None

RECURSIVE public_apis_from(_, _, _)
public_apis_from(i, icao24, rs) ==
    IF i > Len(PUBLIC_APIS) THEN [value |-> None, calls |-> <<>>]
    ELSE LET api == PUBLIC_APIS[i]
             parsed == parse_public_api(api, icao24, rs[api])
             yield == IF rs[api].kind # "response" THEN "error"
                      ELSE IF rs[api].status = 404 THEN "absent"
                      ELSE IF rs[api].status # 200 THEN "error"
                      ELSE IF parsed = None THEN "absent" ELSE "record"
             call == <<Ev("registry", api, <<"registry", icao24>>, 0, yield, parsed)>>
         IN  IF parsed # None
             THEN [value |-> parsed, calls |-> call]
             ELSE LET rest == public_apis_from(i + 1, icao24, rs)
                  IN  [value |-> rest.value, calls |-> call \o rest.calls]

fetch_aircraft_metadata_from_public_apis(icao24, rs) == public_apis_from(1, icao24, rs)

(***************************************************************************)
(* The offline dataset: aircraftDatabase.csv, loaded once.                 *)
(***************************************************************************)
lower(text) == IF text = "4CA7B3" THEN "4ca7b3" ELSE text

load_opensky_csv_db(db, file) == IF db # None THEN db ELSE file

fetch_aircraft_metadata_from_opensky_csv(db, file, icao24) ==
    LET loaded == load_opensky_csv_db(db, file)
        icao == lower(icao24)
    IN  [db |-> loaded,
         value |-> IF icao \in DOMAIN loaded
                   THEN [manufacturer |-> Get(loaded[icao], "manufacturername"),
                         model |-> Get(loaded[icao], "model"),
                         registration |-> Get(loaded[icao], "registration"),
                         operator |-> Get(loaded[icao], "operator"),
                         serialNumber |-> Get(loaded[icao], "serialnumber")]
                   ELSE None]

(***************************************************************************)
(* get_aircraft_metadata: aircraft_metadata_cache, then the public         *)
(* registries, then the CSV.  mc is aircraft_metadata_cache.               *)
(***************************************************************************)
metadata_cache_skip(mc, icao24, metadata) == mc

metadata_cache_store(mc, icao24, metadata) == Put(mc, icao24, metadata)

metadata_cached(mc, icao24) == icao24 \in DOMAIN mc

get_aircraft_metadata(mc, db, file, icao24, rs) ==
    IF metadata_cached(mc, icao24)
    THEN [value |-> mc[icao24], meta_cache |-> mc, db |-> db,
          calls |-> <<Ev("metadata_cache", "aircraft_metadata_cache", <<"metadata", icao24>>,
                         0, "record", mc[icao24])>>]
    ELSE LET pub == fetch_aircraft_metadata_from_public_apis(icao24, rs)
         IN  IF TruthyDict(pub.value)
             THEN [value |-> pub.value,
                   meta_cache |-> metadata_cache_store(mc, icao24, pub.value),
                   db |-> db, calls |-> pub.calls]
             ELSE LET csv == fetch_aircraft_metadata_from_opensky_csv(db, file, icao24)
                      calls == pub.calls \o
                               <<Ev("csv", "opensky_csv", <<"csv", icao24>>, 0,
                                    IF csv.value = None THEN "absent" ELSE "record", csv.value)>>
                  IN  IF TruthyDict(csv.value)
                      THEN [value |-> csv.value,
                            meta_cache |-> metadata_cache_store(mc, icao24, csv.value),
                            db |-> csv.db, calls |-> calls]
                      ELSE [value |-> None, meta_cache |-> mc, db |-> csv.db, calls |-> calls]

(***************************************************************************)
(* GET /api/aircraft/details (get_aircraft_details).                       *)
(***************************************************************************)
\* d.get(k, {}) for a nested dict
GetDict(d, k) == IF k \in DOMAIN d THEN d[k] ELSE EmptyDict

\* d.get(k) for an optional number: <<>> is None
GetNum(d, k) == IF k \in DOMAIN d THEN d[k] ELSE <<>>

\* one get_cached_or_fetch call threaded through a request: ctx holds the cache,
\* the fetch history and the steps so far
cached_call(ctx, cache_key, t, src, fetch_result) ==
    LET g == get_cached_or_fetch(ctx.cache, cache_key, t, fetch_result)
    IN  [cache |-> g.cache,
         log |-> log_fetch(ctx.log, cache_key, t, g),
         calls |-> ctx.calls \o cache_events(ctx.cache, cache_key, t, src, g),
         raised |-> g.raised, error |-> g.error, value |-> g.value]

\* get_cached_or_fetch on one of the AeroDataBox fetch functions
\* (fetch_aircraft_details, fetch_aircraft_flights, fetch_airport_details)
cached_fetch(ctx, cache_key, t, r) ==
    cached_call(ctx, cache_key, t, "aerodatabox", make_aerodatabox_request(r))

\* the fallback test: AeroDataBox returned nothing useful
needs_fallback(aircraft_details) ==
    \/ ~TruthyDict(aircraft_details)
    \/ ~(\/ TruthyStr(Get(aircraft_details, "model"))
         \/ TruthyStr(Get(aircraft_details, "manufacturer"))
         \/ TruthyStr(Get(aircraft_details, "registration")))

airport_icao(flight_info, leg) == Get(GetDict(GetDict(flight_info, leg), "airport"), "icao")

scheduled_utc(flight_info, leg) == Get(GetDict(GetDict(flight_info, leg), "scheduledTime"), "utc")

has_route(flight_info) ==
    /\ TruthyDict(flight_info)
    /\ "departure" \in DOMAIN flight_info
    /\ "arrival" \in DOMAIN flight_info
    /\ TruthyStr(airport_icao(flight_info, "departure"))
    /\ TruthyStr(airport_icao(flight_info, "arrival"))

\* no route whatever the flight names
no_route(flight_info, departure_details, arrival_details) == None

route_info(flight_info, departure_details, arrival_details) ==
    [from |-> airport_icao(flight_info, "departure"),
     to |-> airport_icao(flight_info, "arrival"),
     fromName |-> IF TruthyDict(departure_details) THEN Get(departure_details, "fullName") ELSE NULL,
     toName |-> IF TruthyDict(arrival_details) THEN Get(arrival_details, "fullName") ELSE NULL,
     departureTime |-> scheduled_utc(flight_info, "departure"),
     arrivalTime |-> scheduled_utc(flight_info, "arrival")]

current_position(flight_info) ==
    IF TruthyDict(flight_info) /\ "position" \in DOMAIN flight_info
    THEN LET position == flight_info.position
         IN  [latitude |-> GetNum(position, "latitude"),
              longitude |-> GetNum(position, "longitude"),
              altitude |-> GetNum(GetDict(position, "altitude"), "feet"),
              speed |-> GetNum(GetDict(position, "groundSpeed"), "knots"),
              heading |-> GetNum(position, "heading"),
              verticalRate |-> GetNum(position, "verticalRate"),
              timestamp |-> Get(position, "reportedAt")]
    ELSE None

meta_base(aircraft_details, flight_info) ==
    [model |-> Get(aircraft_details, "model"),
     manufacturer |-> Get(aircraft_details, "manufacturer"),
     registration |-> Get(aircraft_details, "registration"),
     serialNumber |-> Get(aircraft_details, "serialNumber"),
     operator |-> Get(aircraft_details, "operator"),
     age |-> Get(aircraft_details, "age"),
     callsign |-> IF TruthyDict(flight_info) THEN Get(flight_info, "callsign") ELSE NULL,
     flightNumber |-> IF TruthyDict(flight_info) THEN Get(flight_info, "number") ELSE NULL]

\* meta.update({...}) with the live position; None <= 100 raises TypeError
meta_with_position(meta, position) ==
    [k \in DOMAIN meta \cup {"altitude", "speed", "heading", "verticalRate", "onGround"} |->
        IF k = "altitude" THEN position.altitude
        ELSE IF k = "speed" THEN position.speed
        ELSE IF k = "heading" THEN position.heading
        ELSE IF k = "verticalRate" THEN position.verticalRate
        ELSE IF k = "onGround" THEN position.altitude[1] <= 100
        ELSE meta[k]]

error_500(icao24, msg, t) == [error |-> msg, icao24 |-> icao24, timestamp |-> t]

\* what one request leaves behind: the globals, the answer and the steps taken
Outcome(ctx, mc, db, status, body) ==
    [cache |-> ctx.cache, log |-> ctx.log, calls |-> ctx.calls,
     meta_cache |-> mc, db |-> db, status |-> status, body |-> body]

\* lines 765-809: position, meta and the response, once every fetch has returned
details_assemble(ctx, mc, db, icao24, t, aircraft_details, flight_info, route) ==
    LET position == current_position(flight_info)
        with_meta == TruthyDict(aircraft_details)
        type_error == with_meta /\ position # None /\ position.altitude = <<>>
        meta == IF ~with_meta THEN None
                ELSE IF position # None
                     THEN meta_with_position(meta_base(aircraft_details, flight_info), position)
                ELSE meta_base(aircraft_details, flight_info)
    IN  IF type_error
        THEN Outcome(ctx, mc, db, 500,
                 error_500(icao24, "'<=' not supported between instances of 'NoneType' and 'int'", t))
        ELSE Outcome(ctx, mc, db, 200,
                 [icao24 |-> icao24, meta |-> meta, route |-> route, position |-> position,
                  rawData |-> [aircraft |-> aircraft_details, flight |-> flight_info],
                  timestamp |-> t])

\* lines 740-764: the two airport lookups, made only when both codes are present
details_route(ctx, mc, db, icao24, t, aircraft_details, flight_info, rApt) ==
    IF ~has_route(flight_info)
    THEN details_assemble(ctx, mc, db, icao24, t, aircraft_details, flight_info, None)
    ELSE LET dep == airport_icao(flight_info, "departure")
             arr == airport_icao(flight_info, "arrival")
             c3 == cached_fetch(ctx, airport_cache_key(dep), t, rApt[dep])
         IN  IF c3.raised THEN Outcome(c3, mc, db, 500, error_500(icao24, c3.error, t))
             ELSE LET c4 == cached_fetch(c3, airport_cache_key(arr), t, rApt[arr])
                  IN  IF c4.raised THEN Outcome(c4, mc, db, 500, error_500(icao24, c4.error, t))
                      ELSE details_assemble(c4, mc, db, icao24, t, aircraft_details, flight_info,
                               route_info(flight_info, c3.value, c4.value))

\* the step of the primary source is marked when its record has no useful field
mark_useless(calls, useless) ==
    IF useless THEN [calls EXCEPT ![Len(calls)].yield = "no_useful_field"] ELSE calls

\* history: when the fallback chain last obtained a record from a registry or the
\* CSV for the identifier, and when it last ended with nothing from any source
chain_found(m) ==
    \E i \in 1..Len(m.calls) : m.calls[i].kind \in {"registry", "csv"} /\ m.calls[i].yield = "record"

chain_empty(m) ==
    /\ m.calls # <<>>
    /\ \A i \in 1..Len(m.calls) : m.calls[i].kind \in {"registry", "csv"} /\ m.calls[i].yield = "absent"

log_chain(log, icao24, t, m) ==
    IF chain_found(m) THEN Put(log, <<"metadata", icao24>>, [at |-> t, value |-> m.value])
    ELSE IF chain_empty(m) THEN Put(log, <<"no_metadata", icao24>>, [at |-> t, value |-> None])
    ELSE log

\* lines 718-739: primary metadata, the fallback chain, the flight lookup
get_aircraft_details(ctx, mc, db, file, icao24, t, rDet, rPub, rFlt, rApt) ==
    LET c1 == cached_fetch(ctx, details_cache_key(icao24), t, rDet)
    IN  IF c1.raised THEN Outcome(c1, mc, db, 500, error_500(icao24, c1.error, t))
        ELSE LET fallback == needs_fallback(c1.value)
                 m == IF fallback THEN get_aircraft_metadata(mc, db, file, icao24, rPub)
                      ELSE [value |-> c1.value, meta_cache |-> mc, db |-> db, calls |-> <<>>]
                 c1m == [c1 EXCEPT
                           !.calls = mark_useless(c1.calls, fallback /\ TruthyDict(c1.value))
                                       \o m.calls,
                           !.log = log_chain(c1.log, icao24, t, m)]
                 c2 == cached_fetch(c1m, flight_cache_key(icao24), t, rFlt)
             IN  IF c2.raised
                 THEN Outcome(c2, m.meta_cache, m.db, 500, error_500(icao24, c2.error, t))
                 ELSE details_route(c2, m.meta_cache, m.db, icao24, t, m.value, c2.value, rApt)

\* the request as one step of the server
Commit(op, icao24, out) ==
    /\ cache' = out.cache
    /\ fetch_log' = out.log
    /\ aircraft_metadata_cache' = out.meta_cache
    /\ opensky_csv_db' = out.db
    /\ last' = [op |-> op, key |-> NoKey, icao24 |-> icao24, raised |-> FALSE,
                status |-> out.status, body |-> out.body, calls |-> out.calls]
    /\ UNCHANGED <<now, csv_file>>
    /\ UNCHANGED notify_vars

StartCtx == [cache |-> cache, log |-> fetch_log, calls |-> <<>>]

GetAircraftDetails(icao24, rDet, rPub, rFlt, rApt) ==
    Commit("details", icao24,
           get_aircraft_details(StartCtx, aircraft_metadata_cache, opensky_csv_db, csv_file,
                                icao24, now, rDet, rPub, rFlt, rApt))

\* a request without the icao24 parameter
GetAircraftDetailsMissing ==
    /\ last' = [op |-> "details", key |-> NoKey, icao24 |-> "", raised |-> FALSE,
                status |-> 400, body |-> [error |-> "Missing icao24 parameter"],
                calls |-> <<>>]
    /\ UNCHANGED <<now, cache, aircraft_metadata_cache, opensky_csv_db, csv_file, fetch_log>>
    /\ UNCHANGED notify_vars

(***************************************************************************)
(* Text.  A Python str of the server is a string; Len, SubSeq and \o act   *)
(* on its characters.                                                      *)
(***************************************************************************)
WHITESPACE == {" ", "\t", "\n"}

DIGITS == <<"0", "1", "2", "3", "4", "5", "6", "7", "8", "9">>

char_at(text, i) == SubSeq(text, i, i)

\* text[:n]
prefix(text, n) == SubSeq(text, 1, IF n < Len(text) THEN n ELSE Len(text))

\* text[i:], i counted from 1
suffix(text, i) == SubSeq(text, i, Len(text))

\* str.find from position i: the position of the first ch at or after i, 0 if none
find(text, ch, i) ==
    LET hits == { j \in i..Len(text) : char_at(text, j) = ch }
    IN  IF hits = {} THEN 0 ELSE CHOOSE j \in hits : \A k \in hits : j <= k

RECURSIVE lstrip(_)
lstrip(text) ==
    IF Len(text) > 0 /\ char_at(text, 1) \in WHITESPACE THEN lstrip(suffix(text, 2)) ELSE text

RECURSIVE rstrip(_)
rstrip(text) ==
    IF Len(text) > 0 /\ char_at(text, Len(text)) \in WHITESPACE
    THEN rstrip(prefix(text, Len(text) - 1))
    ELSE text

\* str.strip()
strip(text) == rstrip(lstrip(text))

\* str.replace(old, "")
RECURSIVE remove_text(_, _)
remove_text(text, old) ==
    IF Len(text) < Len(old) THEN text
    ELSE IF prefix(text, Len(old)) = old THEN remove_text(suffix(text, Len(old) + 1), old)
    ELSE char_at(text, 1) \o remove_text(suffix(text, 2), old)

\* str.replace("  ", " "): non-overlapping occurrences, left to right
RECURSIVE replace_double_space(_)
replace_double_space(text) ==
    IF Len(text) < 2 THEN text
    ELSE IF prefix(text, 2) = "  " THEN " " \o replace_double_space(suffix(text, 3))
    ELSE char_at(text, 1) \o replace_double_space(suffix(text, 2))

\* str.split()[0]: the first word; "" stands for the IndexError of an empty split
first_word(text) ==
    LET t == lstrip(text)
        ends == { i \in 1..Len(t) : char_at(t, i) \in WHITESPACE }
    IN  IF ends = {} THEN t
        ELSE prefix(t, (CHOOSE i \in ends : \A j \in ends : i <= j) - 1)

\* str.split(sep)[0] and str.split(sep)[1]; the second exists only if sep occurs
split_0(text, sep) ==
    IF find(text, sep, 1) = 0 THEN text ELSE prefix(text, find(text, sep, 1) - 1)

has_split_1(text, sep) == find(text, sep, 1) # 0

split_1(text, sep) ==
    LET from == find(text, sep, 1) + 1
        to == find(text, sep, from)
    IN  IF to = 0 THEN suffix(text, from) ELSE SubSeq(text, from, to - 1)

\* str.split(sep, 1)[1]
split_rest(text, sep) == suffix(text, find(text, sep, 1) + 1)

\* str.split("\n")
RECURSIVE split_lines(_)
split_lines(text) ==
    IF find(text, "\n", 1) = 0 THEN <<text>>
    ELSE <<prefix(text, find(text, "\n", 1) - 1)>>
         \o split_lines(suffix(text, find(text, "\n", 1) + 1))

is_digit(ch) == \E d \in 1..10 : DIGITS[d] = ch

digit_value(ch) == (CHOOSE d \in 1..10 : DIGITS[d] = ch) - 1

RECURSIVE digits_value(_)
digits_value(text) ==
    IF Len(text) = 0 THEN 0
    ELSE digits_value(prefix(text, Len(text) - 1)) * 10 + digit_value(char_at(text, Len(text)))

\* int(text): surrounding whitespace and one sign are accepted (digit
\* separators are not modelled)
unsigned(text) ==
    LET t == rstrip(lstrip(text))
    IN  IF Len(t) > 0 /\ char_at(t, 1) \in {"+", "-"} THEN suffix(t, 2) ELSE t

is_int_text(text) ==
    /\ Len(unsigned(text)) > 0
    /\ \A i \in 1..Len(unsigned(text)) : is_digit(char_at(unsigned(text), i))

int_of_text(text) ==
    LET t == rstrip(lstrip(text))
    IN  IF char_at(t, 1) = "-" THEN 0 - digits_value(unsigned(text))
        ELSE digits_value(unsigned(text))

\* f"{n:,}"
RECURSIVE thousands(_)
thousands(n) ==
    IF n < 0 THEN "-" \o thousands(0 - n)
    ELSE IF n < 1000 THEN ToString(n)
    ELSE thousands(n \div 1000) \o ","
         \o (IF n % 1000 < 10 THEN "00" ELSE IF n % 1000 < 100 THEN "0" ELSE "")
         \o ToString(n % 1000)

(***************************************************************************)
(* GET /api/aircraft (get_nearby_aircraft).                                *)
(*                                                                         *)
(* A query argument is missing, a text that float() rejects, or a number.  *)
(* A state vector is a record named after the OpenSky columns read by      *)
(* process_opensky_states (0 icao24, 1 callsign, 2 origin_country,         *)
(* 5 longitude, 6 latitude, 7 baro_altitude, 8 on_ground, 9 velocity,      *)
(* 10 true_track, 11 vertical_rate); distance_m stands for what            *)
(* calculate_distance returns for its coordinates and the center of the    *)
(* query, in metres.  Converted quantities (feet, knots, ft/min) are kept   *)
(* as whole units, the fraction dropped.                                   *)
(***************************************************************************)
ENRICHMENT_LIMIT == 5

DEFAULT_RADIUS == 3

Missing == [kind |-> "missing", value |-> 0]

Text == [kind |-> "text", value |-> 0]

Num(v) == [kind |-> "number", value |-> v]

\* the request function with status 404 raised like any other failure status
make_opensky_request_raising(r) ==
    IF r.kind = "no_token" THEN Raised("Could not obtain OpenSky access token")
    ELSE IF r.kind = "timeout" THEN Raised("Request to OpenSky API timed out")
    ELSE IF r.kind = "connection_error" THEN Raised("Failed to connect to OpenSky API")
    ELSE IF r.status # 200 THEN Raised("OpenSky API error")
    ELSE Returned(r.body)

make_opensky_request(r) ==
    IF r.kind = "no_token" THEN Raised("Could not obtain OpenSky access token")
    ELSE IF r.kind = "timeout" THEN Raised("Request to OpenSky API timed out")
    ELSE IF r.kind = "connection_error" THEN Raised("Failed to connect to OpenSky API")
    ELSE IF r.status = 401 THEN Raised("Invalid OpenSky credentials or expired token")
    ELSE IF r.status = 429 THEN Raised("Rate limit exceeded. Please try again later.")
    ELSE IF r.status = 404 THEN Returned(None)
    ELSE IF r.status # 200 THEN Raised("OpenSky API error")
    ELSE Returned(r.body)

\* the bounding box sent upstream does not decide what the model's upstream answers
fetch_opensky_states(lat, lon, radius_km, r) == make_opensky_request(r)

nearby_cache_key(lat, lon, radius) ==
    <<"nearby_aircraft", ToString(lat) \o "_" \o ToString(lon) \o "_" \o ToString(radius)>>


\* x * factor if x else None, for an optional number; the factor is
\* units + hundred_thousandths / 100000
scaled(x, units, hundred_thousandths) ==
    IF x = <<>> \/ x[1] = 0 THEN <<>>
    ELSE <<x[1] * units + (x[1] * hundred_thousandths) \div 100000>>

\* round(distance, 1), in tenths of a kilometre
round_1(distance_m) == (distance_m + 50) \div 100

aircraft_data(state) ==
    [icao24 |-> state.icao24,
     callsign |-> IF TruthyStr(state.callsign) THEN strip(state.callsign) ELSE NULL,
     country |-> state.origin_country,
     latitude |-> state.latitude,
     longitude |-> state.longitude,
     altitude |-> scaled(state.baro_altitude, 3, 28084),
     speed |-> scaled(state.velocity, 1, 94384),
     heading |-> state.true_track,
     verticalRate |-> scaled(state.vertical_rate, 196, 85000),
     onGround |-> state.on_ground,
     distance |-> round_1(state.distance_m)]

\* the loop with the record at exactly the radius dropped
RECURSIVE filter_states_strict(_, _, _)
filter_states_strict(states, i, radius_km) ==
    IF i > Len(states) THEN <<>>
    ELSE LET state == states[i]
             rest == filter_states_strict(states, i + 1, radius_km)
         IN  IF state.longitude = <<>> \/ state.latitude = <<>> THEN rest
             ELSE IF state.distance_m >= radius_km * 1000 THEN rest
             ELSE <<aircraft_data(state)>> \o rest

\* the loop of process_opensky_states: the records kept, in upstream order
RECURSIVE filter_states(_, _, _)
filter_states(states, i, radius_km) ==
    IF i > Len(states) THEN <<>>
    ELSE LET state == states[i]
             rest == filter_states(states, i + 1, radius_km)
         IN  IF state.longitude = <<>> \/ state.latitude = <<>> THEN rest
             ELSE IF state.distance_m > radius_km * 1000 THEN rest
             ELSE <<aircraft_data(state)>> \o rest

\* list.sort(key=distance): a stable sort
RECURSIVE insert_sorted(_, _)
insert_sorted(sorted, x) ==
    IF sorted = <<>> THEN <<x>>
    ELSE IF Head(sorted).distance <= x.distance THEN <<Head(sorted)>> \o insert_sorted(Tail(sorted), x)
    ELSE <<x>> \o sorted

\* the list left in upstream order
unsorted(result, n) == result

RECURSIVE sort_by_distance(_, _)
sort_by_distance(result, n) ==
    IF n = 0 THEN <<>> ELSE insert_sorted(sort_by_distance(result, n - 1), result[n])

process_opensky_states(states_data, center_lat, center_lon, radius_km) ==
    IF ~TruthyDict(states_data) \/ "states" \notin DOMAIN states_data \/ states_data.states = <<>>
    THEN <<>>
    ELSE LET result == filter_states(states_data.states, 1, radius_km)
         IN  sort_by_distance(result, Len(result))

\* dict.update / item assignment of several keys
Update(d, e) == [k \in DOMAIN d \cup DOMAIN e |-> IF k \in DOMAIN e THEN e[k] ELSE d[k]]

\* lines 885-892: the cached AeroDataBox record, read without looking at its timestamp
enrich_details(c, aircraft) ==
    LET key == details_cache_key(aircraft.icao24)
    IN  IF key \in DOMAIN c /\ TruthyDict(c[key].data)
        THEN Update(aircraft, [manufacturer |-> Get(c[key].data, "manufacturer"),
                               model |-> Get(c[key].data, "model"),
                               registration |-> Get(c[key].data, "registration"),
                               operator |-> Get(c[key].data, "operator"),
                               owner |-> Get(c[key].data, "owner")])
        ELSE aircraft

\* lines 894-908: the cached flight, read without looking at its timestamp
enrich_flight(c, aircraft) ==
    LET key == flight_cache_key(aircraft.icao24)
    IN  IF key \in DOMAIN c /\ TruthyDict(c[key].data)
        THEN LET flight_info == c[key].data
                 numbered == Update(aircraft, [flightNumber |-> Get(flight_info, "number")])
             IN  IF has_route(flight_info)
                 THEN Update(numbered, [route |-> [from |-> airport_icao(flight_info, "departure"),
                                                   to |-> airport_icao(flight_info, "arrival")]])
                 ELSE numbered
        ELSE aircraft

\* the cache entries the enrichment of one aircraft reads
peek_events(c, t, icao24) ==
    LET dk == details_cache_key(icao24)
        fk == flight_cache_key(icao24)
    IN  (IF dk \in DOMAIN c
         THEN <<Ev("peek", "cache", dk, t - c[dk].timestamp,
                   IF TruthyDict(c[dk].data) THEN "record" ELSE "absent", c[dk].data)>>
         ELSE <<>>)
        \o
        (IF fk \in DOMAIN c
         THEN <<Ev("peek", "cache", fk, t - c[fk].timestamp,
                   IF TruthyDict(c[fk].data) THEN "record" ELSE "absent", c[fk].data)>>
         ELSE <<>>)

\* every record of the list enriched
enrich_all(aircraft_list) == Len(aircraft_list)

enrichment_limit(aircraft_list) ==
    IF ENRICHMENT_LIMIT < Len(aircraft_list) THEN ENRICHMENT_LIMIT ELSE Len(aircraft_list)

enrich(c, aircraft_list) ==
    [i \in 1..Len(aircraft_list) |->
        IF i <= enrichment_limit(aircraft_list)
        THEN enrich_flight(c, enrich_details(c, aircraft_list[i]))
        ELSE aircraft_list[i]]

RECURSIVE enrich_events(_, _, _, _)
enrich_events(c, t, aircraft_list, i) ==
    IF i > enrichment_limit(aircraft_list) THEN <<>>
    ELSE peek_events(c, t, aircraft_list[i].icao24) \o enrich_events(c, t, aircraft_list, i + 1)

JsonArray(items) == [json_array |-> items]

error_400(msg) == [error |-> msg]

\* the argument checks with only the presence of lat and lon looked at
validate_presence(lat, lon, radius) ==
    IF lat.kind = "missing" \/ lon.kind = "missing" THEN error_400("Missing lat/lon parameters")
    ELSE None

\* the argument checks of lines 838-855: the 400 answer, or None when they pass
validate(lat, lon, radius) ==
    IF lat.kind = "missing" \/ lon.kind = "missing" THEN error_400("Missing lat/lon parameters")
    ELSE IF lat.kind = "text" \/ lon.kind = "text" \/ radius.kind = "text"
         THEN error_400("Invalid parameter format")
    ELSE IF ~(-90 <= lat.value /\ lat.value <= 90)
         THEN error_400("Latitude must be between -90 and 90")
    ELSE IF ~(-180 <= lon.value /\ lon.value <= 180)
         THEN error_400("Longitude must be between -180 and 180")
    ELSE IF ~(1 <= radius.value /\ radius.value <= 100)
         THEN error_400("Radius must be between 1 and 100 km")
    ELSE None

get_nearby_aircraft(ctx, mc, db, t, lat, lon, radius_arg, rSky) ==
    LET radius == IF radius_arg.kind = "missing" THEN Num(DEFAULT_RADIUS) ELSE radius_arg
        invalid == validate(lat, lon, radius)
    IN  IF invalid # None THEN Outcome(ctx, mc, db, 400, invalid)
        ELSE LET c1 == cached_call(ctx, nearby_cache_key(lat.value, lon.value, radius.value), t,
                                   "opensky",
                                   fetch_opensky_states(lat.value, lon.value, radius.value, rSky))
             IN  IF c1.raised
                 THEN Outcome(c1, mc, db, 500, [error |-> c1.error, timestamp |-> t])
                 ELSE LET aircraft_list == process_opensky_states(c1.value, lat.value, lon.value,
                                                                  radius.value)
                          c2 == [c1 EXCEPT !.calls =
                                    c1.calls \o enrich_events(c1.cache, t, aircraft_list, 1)]
                      IN  Outcome(c2, mc, db, 200, JsonArray(enrich(c1.cache, aircraft_list)))

GetNearbyAircraft(lat, lon, radius, rSky) ==
    Commit("nearby", "",
           get_nearby_aircraft(StartCtx, aircraft_metadata_cache, opensky_csv_db, now,
                               lat, lon, radius, rSky))

(***************************************************************************)
(* The metadata chain under every kind of upstream answer: the details     *)
(* endpoint for one aircraft, with no flight known to AeroDataBox.         *)
(***************************************************************************)
PrimaryResponses ==
    { Response(200, AircraftBody("737", NULL, NULL, NULL)),
      Response(200, AircraftBody(NULL, NULL, NULL, "British Airways")),
      Response(200, EmptyDict),
      Response(404, None),
      Response(401, None),
      Response(500, None),
      Failure("timeout") }

HexdbResponses ==
    { Response(200, [aircraft |-> [manufacturer |-> "Boeing", type |-> "747"]]),
      Response(200, [aircraft |-> EmptyDict]),
      Response(200, [status |-> "404", error |-> "Aircraft not found."]),
      Response(404, None),
      Response(503, None),
      Failure("timeout") }

AdsbexchangeResponses(icao24) ==
    { Response(200, [acList |-> <<[Icao |-> "ffffff", Man |-> "Cessna"],
                                  [Icao |-> icao24, Man |-> "Embraer", Mdl |-> "E190",
                                   Reg |-> "G-LCYJ"]>>]),
      Response(200, [acList |-> <<>>]),
      Response(200, [lastDv |-> "0"]),
      Failure("connection_error") }

PublicResponses(icao24) ==
    { [api \in {"hexdb", "adsbexchange"} |-> IF api = "hexdb" THEN h ELSE a] :
        h \in HexdbResponses, a \in AdsbexchangeResponses(icao24) }

AirportCodes == {"EGLL", "KJFK"}

NoAirports == [code \in AirportCodes |-> Response(404, None)]

NextMeta ==
    \/ Tick(TickStep)
    \/ \E icao24 \in ICAO24S, rDet \in PrimaryResponses :
          \E rPub \in PublicResponses(icao24) :
             GetAircraftDetails(icao24, rDet, rPub, NotFound, NoAirports)

SpecMeta == Init /\ [][NextMeta]_vars

(***************************************************************************)
(* The server: the details endpoint and the nearby listing, sharing the    *)
(* cache, with time passing between requests.                              *)
(***************************************************************************)
FlightBody ==
    [number |-> "BA117", callsign |-> "BAW117",
     departure |-> [airport |-> [icao |-> "EGLL"], scheduledTime |-> [utc |-> "2024-05-01 08:25Z"]],
     arrival |-> [airport |-> [icao |-> "KJFK"], scheduledTime |-> [utc |-> "2024-05-01 16:10Z"]],
     position |-> [latitude |-> <<51>>, longitude |-> <<0>>, altitude |-> [feet |-> <<35000>>],
                   groundSpeed |-> [knots |-> <<450>>], heading |-> <<270>>,
                   verticalRate |-> <<0>>, reportedAt |-> "2024-05-01 09:00Z"]]

DetailsResponses ==
    { Response(200, AircraftBody("737", "Boeing", "G-ABCD", "British Airways")),
      Response(404, None) }

FlightResponses == { Response(200, FlightBody), Response(404, None) }

NoPublicRecord == [api \in {"hexdb", "adsbexchange"} |-> Response(404, None)]

StateVector(icao24, callsign, latitude, longitude, baro_altitude, distance_m) ==
    [icao24 |-> icao24, callsign |-> callsign, origin_country |-> "United Kingdom",
     longitude |-> longitude, latitude |-> latitude, baro_altitude |-> baro_altitude,
     on_ground |-> FALSE, velocity |-> <<230>>, true_track |-> <<270>>,
     vertical_rate |-> <<0>>, distance_m |-> distance_m]

OpenSkyResponses ==
    { Response(200, [time |-> 1714554000,
                     states |-> << StateVector("3c6444", "DLH400", <<51>>, <<0>>, <<11000>>, 2420),
                                   StateVector("a0b1c2", "", <<>>, <<>>, <<>>, 0),
                                   StateVector("4ca7b3", " BAW123 ", <<51>>, <<0>>, <<10668>>, 1230),
                                   StateVector("06a0e1", NULL, <<52>>, <<1>>, <<0>>, 131100) >>]),
      Response(200, [time |-> 1714554000, states |-> <<>>]),
      Response(404, None),
      Response(429, None),
      Failure("timeout") }

Query(lat, lon, radius) == [lat |-> lat, lon |-> lon, radius |-> radius]

NearbyQueries ==
    { Query(Num(51), Num(0), Missing),
      Query(Missing, Num(0), Missing),
      Query(Num(51), Text, Num(2)),
      Query(Num(51), Num(0), Text),
      Query(Num(91), Num(0), Missing),
      Query(Num(51), Num(181), Missing),
      Query(Num(51), Num(0), Num(0)),
      Query(Num(-91), Num(0), Missing),
      Query(Num(51), Num(-181), Missing),
      Query(Num(51), Num(0), Num(101)) }

Next ==
    \/ Tick(TickStep)
    \/ \E icao24 \in ICAO24S, rDet \in DetailsResponses, rFlt \in FlightResponses :
          GetAircraftDetails(icao24, rDet, NoPublicRecord, rFlt, NoAirports)
    \/ GetAircraftDetailsMissing
    \/ \E q \in NearbyQueries, rSky \in OpenSkyResponses :
          GetNearbyAircraft(q.lat, q.lon, q.radius, rSky)

Spec == Init /\ [][Next]_vars

(***************************************************************************)
(* The detail assembly under every kind of answer to its sub-fetches: the  *)
(* details endpoint for one aircraft, the registries knowing nothing.      *)
(***************************************************************************)
FlightWithoutRoute ==
    [number |-> "BA117", callsign |-> "BAW117",
     position |-> [latitude |-> <<51>>, longitude |-> <<0>>, altitude |-> [feet |-> <<35000>>],
                   groundSpeed |-> [knots |-> <<450>>], heading |-> <<270>>,
                   verticalRate |-> <<0>>, reportedAt |-> "2024-05-01 09:00Z"]]

\* a flight to an airfield AeroDataBox has no ICAO code for
FlightToUncodedAirport ==
    [number |-> "BA117", callsign |-> "BAW117",
     departure |-> [airport |-> [icao |-> "EGLL"], scheduledTime |-> [utc |-> "2024-05-01 08:25Z"]],
     arrival |-> [airport |-> [name |-> "Private airfield"]]]

\* a flight whose position report carries no altitude
FlightWithoutAltitude ==
    [number |-> "BA117", callsign |-> "BAW117",
     position |-> [latitude |-> <<51>>, longitude |-> <<0>>,
                   groundSpeed |-> [knots |-> <<450>>], heading |-> <<270>>,
                   verticalRate |-> <<0>>, reportedAt |-> "2024-05-01 09:00Z"]]

\* a flight taxiing at 100 ft
FlightOnGround ==
    [number |-> "BA117", callsign |-> "BAW117",
     position |-> [latitude |-> <<51>>, longitude |-> <<0>>, altitude |-> [feet |-> <<100>>],
                   groundSpeed |-> [knots |-> <<15>>], heading |-> <<270>>,
                   verticalRate |-> <<0>>, reportedAt |-> "2024-05-01 09:00Z"]]

AssemblyDetailsResponses == DetailsResponses \cup {Failure("timeout")}

AssemblyFlightResponses ==
    { Response(200, FlightBody), Response(200, FlightWithoutRoute),
      Response(200, FlightToUncodedAirport), Response(200, FlightWithoutAltitude),
      Response(200, FlightOnGround), Response(404, None),
      Response(500, None), Failure("timeout") }

AirportBody(fullName) == [icao |-> "", fullName |-> fullName]

AssemblyAirportResponses ==
    { [code \in AirportCodes |->
          IF code = "EGLL" THEN dep ELSE arr] :
        dep \in {Response(200, AirportBody("London Heathrow")), Failure("connection_error")},
        arr \in {Response(200, AirportBody("New York John F Kennedy")), Response(404, None),
                 Response(429, None)} }

NextAssembly ==
    \/ Tick(TickStep)
    \/ \E icao24 \in ICAO24S, rDet \in AssemblyDetailsResponses,
          rFlt \in AssemblyFlightResponses, rApt \in AssemblyAirportResponses :
          GetAircraftDetails(icao24, rDet, NoPublicRecord, rFlt, rApt)

SpecAssembly == Init /\ [][NextAssembly]_vars

(***************************************************************************)
(* format_flight_notification.  The aircraft record posted to              *)
(* /api/vestaboard/notify is a JSON object: a function from field names to *)
(* JSON values, a value being Str(text), Number(n) or None.                *)
(***************************************************************************)
DISPLAY_COLUMNS == 22

\* the degree mark as the source file spells it: the two characters U+00AC and
\* U+221E; the second one is written U+00A4 here
DEGREE == "¬¤"

Str(text) == [text |-> text]

Number(n) == [number |-> n]

IsStr(v) == DOMAIN v = {"text"}

IsNumber(v) == DOMAIN v = {"number"}

\* bool(v)
Truthy(v) == v # None /\ v # Str("") /\ v # Number(0)

\* d.get(k, default)
DictGet(d, k, default) == IF k \in DOMAIN d THEN d[k] ELSE default

type_name(v) == IF v = None THEN "NoneType" ELSE IF IsNumber(v) THEN "int" ELSE "str"

\* str(v) as an f-string renders it
str_of(v) == IF IsStr(v) THEN v.text ELSE IF IsNumber(v) THEN ToString(v.number) ELSE "None"

\* lines 546-554: altitude and heading out of "<int> ft | <int><degree>"; an exception
\* ends the block and keeps what was assigned before it
parse_position(position_str, altitude, heading) ==
    LET kept == [altitude |-> altitude, heading |-> heading]
    IN  IF ~IsStr(position_str) THEN kept
        ELSE LET alt_word == first_word(strip(split_0(position_str.text, "|")))
             IN  IF ~is_int_text(alt_word) THEN kept
                 ELSE LET parsed == Number(int_of_text(alt_word))
                          heading_text ==
                              remove_text(strip(split_1(position_str.text, "|")), DEGREE)
                      IN  IF ~has_split_1(position_str.text, "|") \/ ~is_int_text(heading_text)
                          THEN [altitude |-> parsed, heading |-> heading]
                          ELSE [altitude |-> parsed,
                                heading |-> Number(int_of_text(heading_text))]

\* lines 539-554
altitude_and_heading(aircraft) ==
    LET altitude == DictGet(aircraft, "altitude", Number(0))
        heading == DictGet(aircraft, "heading", Number(0))
        position_str == DictGet(aircraft, "position", Str(""))
    IN  IF (~Truthy(altitude) \/ ~Truthy(heading)) /\ Truthy(position_str)
        THEN parse_position(position_str, altitude, heading)
        ELSE [altitude |-> altitude, heading |-> heading]

\* lines 557-562
speed_of(aircraft) ==
    LET speed == DictGet(aircraft, "speed", Number(0))
    IN  IF IsStr(speed)
        THEN IF is_int_text(first_word(speed.text))
             THEN Number(int_of_text(first_word(speed.text)))
             ELSE Number(0)
        ELSE speed

\* lines 565-577: manufacturer and model, from aircraftType when one is missing
maker_and_model(aircraft) ==
    LET manufacturer == DictGet(aircraft, "manufacturer", Str(""))
        model == DictGet(aircraft, "model", Str(""))
        aircraft_type_str == DictGet(aircraft, "aircraftType", Str(""))
    IN  IF (~Truthy(manufacturer) \/ ~Truthy(model)) /\ Truthy(aircraft_type_str)
        THEN IF find(aircraft_type_str.text, ":", 1) # 0
             THEN [manufacturer |-> Str(strip(split_0(aircraft_type_str.text, ":"))),
                   model |-> Str(strip(split_rest(aircraft_type_str.text, ":")))]
             ELSE [manufacturer |-> manufacturer, model |-> aircraft_type_str]
        ELSE [manufacturer |-> manufacturer, model |-> model]

\* int(v) raises for a text that is no integer
int_ok(v) == IsNumber(v) \/ (IsStr(v) /\ is_int_text(v.text))

int_of(v) == IF IsNumber(v) THEN v.number ELSE int_of_text(v.text)

invalid_literal(v) ==
    IF IsStr(v) THEN "invalid literal for int() with base 10: '" \o v.text \o "'"
    ELSE "int() argument must be a string, a bytes-like object or a real number, not '"
         \o type_name(v) \o "'"

no_len(v) == "object of type '" \o type_name(v) \o "' has no len()"

\* lines 591-598
aircraft_type_of(manufacturer, model) ==
    IF Truthy(manufacturer) /\ Truthy(model)
    THEN Str(strip(replace_double_space(str_of(manufacturer) \o " " \o str_of(model))))
    ELSE IF Truthy(manufacturer) THEN manufacturer
    ELSE IF Truthy(model) THEN model
    ELSE Str("Unknown")

\* x[:22] if len(x) > 22 else x
truncate(text) == IF Len(text) > DISPLAY_COLUMNS THEN prefix(text, DISPLAY_COLUMNS) ELSE text

format_flight_notification(aircraft) ==
    LET callsign == DictGet(aircraft, "callsign", Str("UNKNOWN"))
        ah == altitude_and_heading(aircraft)
        speed == speed_of(aircraft)
        mm == maker_and_model(aircraft)
        aircraft_type_str == DictGet(aircraft, "aircraftType", Str(""))
        registration == DictGet(aircraft, "registration", Str(""))
        operator == DictGet(aircraft, "registeredOwner", Str(""))
        country == DictGet(aircraft, "country", Str(""))
        aircraft_type == aircraft_type_of(mm.manufacturer, mm.model)
        owner_operator == IF Truthy(operator) THEN operator ELSE Str("")
    IN  IF ~IsStr(callsign)
        THEN Raised("'" \o type_name(callsign) \o "' object has no attribute 'strip'")
        ELSE IF (~Truthy(DictGet(aircraft, "manufacturer", Str("")))
                 \/ ~Truthy(DictGet(aircraft, "model", Str(""))))
                /\ Truthy(aircraft_type_str) /\ ~IsStr(aircraft_type_str)
        THEN Raised("argument of type '" \o type_name(aircraft_type_str) \o "' is not iterable")
        ELSE IF Truthy(ah.altitude) /\ ~int_ok(ah.altitude) THEN Raised(invalid_literal(ah.altitude))
        ELSE IF Truthy(speed) /\ ~int_ok(speed) THEN Raised(invalid_literal(speed))
        ELSE IF Truthy(ah.heading) /\ ~int_ok(ah.heading) THEN Raised(invalid_literal(ah.heading))
        ELSE IF ~IsStr(registration) THEN Raised(no_len(registration))
        ELSE IF ~IsStr(owner_operator) THEN Raised(no_len(owner_operator))
        ELSE IF ~IsStr(aircraft_type) THEN Raised(no_len(aircraft_type))
        ELSE IF ~IsStr(country) THEN Raised(no_len(country))
        ELSE Returned(
                 truncate(strip(callsign.text)) \o "   " \o truncate(registration.text) \o "\n"
                 \o truncate(owner_operator.text) \o "  " \o truncate(country.text) \o "\n"
                 \o truncate(aircraft_type.text) \o "\n"
                 \o (IF Truthy(ah.altitude) THEN thousands(int_of(ah.altitude)) \o " ft"
                     ELSE "N/A") \o "\n"
                 \o (IF Truthy(speed) THEN ToString(int_of(speed)) \o " knots" ELSE "N/A") \o "\n"
                 \o (IF Truthy(ah.heading) THEN ToString(int_of(ah.heading)) \o DEGREE
                     ELSE "N/A"))

(***************************************************************************)
(* VestaboardAPI (vestaboard_api.py): the character table, the conversion  *)
(* of a text to the grid of character codes, and send_message.  The eight  *)
(* colour chips of the table lie outside the characters a string can hold  *)
(* here; they are written as the characters U+00A1 (red), U+00A2 (orange), *)
(* U+00A3 (yellow), U+00A5 (green), U+00A6 (blue), U+00A7 (violet),        *)
(* U+00A9 (white) and U+00AE (black).                                      *)
(***************************************************************************)
MAX_LINES == 6

MAX_CHARS == 22

char_codes ==
    (" " :> 0)
    @@ ("A" :> 1 @@ "B" :> 2 @@ "C" :> 3 @@ "D" :> 4 @@ "E" :> 5 @@ "F" :> 6 @@ "G" :> 7 @@
       "H" :> 8 @@ "I" :> 9 @@ "J" :> 10 @@ "K" :> 11 @@ "L" :> 12 @@ "M" :> 13 @@ "N" :>
       14 @@ "O" :> 15 @@ "P" :> 16 @@ "Q" :> 17 @@ "R" :> 18 @@ "S" :> 19 @@ "T" :> 20 @@
       "U" :> 21 @@ "V" :> 22 @@ "W" :> 23 @@ "X" :> 24 @@ "Y" :> 25 @@ "Z" :> 26)
    @@ ("1" :> 27 @@ "2" :> 28 @@ "3" :> 29 @@ "4" :> 30 @@ "5" :> 31 @@ "6" :> 32 @@ "7" :>
       33 @@ "8" :> 34 @@ "9" :> 35 @@ "0" :> 36)
    @@ ("!" :> 37 @@ "@" :> 38 @@ "#" :> 39 @@ "$" :> 40 @@ "(" :> 41 @@ ")" :> 42 @@ "-" :>
       44 @@ "+" :> 46 @@ "&" :> 47 @@ "=" :> 48 @@ ";" :> 49 @@ ":" :> 50 @@ "'" :> 52 @@
       "\"" :> 53 @@ "%" :> 54 @@ "," :> 55 @@ "." :> 56 @@ "/" :> 59 @@ "?" :> 60 @@ "°"
       :> 62)
    @@ ("¡" :> 63 @@ "¢" :> 64 @@ "£" :> 65 @@ "¥" :> 66 @@ "¦" :> 67 @@ "§" :> 68 @@ "©" :>
       69 @@ "®" :> 70)

LOWERCASE == "abcdefghijklmnopqrstuvwxyz"

UPPERCASE == "ABCDEFGHIJKLMNOPQRSTUVWXYZ"

\* char.upper(), for the letters a to z; every other character of the model is
\* its own upper case or has an upper case outside the table
upper(char) ==
    IF find(LOWERCASE, char, 1) # 0 THEN char_at(UPPERCASE, find(LOWERCASE, char, 1)) ELSE char

unknown_as_71(char) == IF upper(char) \in DOMAIN char_codes THEN char_codes[upper(char)] ELSE 71

\* lines 99-103: the code of one character
code_of(char) == IF upper(char) \in DOMAIN char_codes THEN char_codes[upper(char)] ELSE 0

\* line[:max_chars], padded with zeros
line_codes(line, max_chars) ==
    [column \in 1..max_chars |->
        IF column <= Len(line) THEN code_of(char_at(line, column)) ELSE 0]

text_to_character_codes(text, max_lines, max_chars) ==
    LET lines == split_lines(text)
    IN  [row \in 1..max_lines |->
            IF row <= Len(lines) THEN line_codes(lines[row], max_chars)
            ELSE [column \in 1..max_chars |-> 0]]

\* the answer of the display to a request: status 201 to a POST and 200 to a
\* GET when it accepts, another status, or no answer at all
DisplayAnswers == {"ok", "refused", "unreachable"}

\* VestaboardAPI.send_message and its wrapper VestaboardClient.send_message
send_message(text, answer) ==
    [characters |-> text_to_character_codes(text, MAX_LINES, MAX_CHARS),
     success |-> answer = "ok"]

\* the grid on the display after a POST
posted(shown, message) == IF message.success THEN message.characters ELSE shown

(***************************************************************************)
(* send_message applied to texts drawn from a small set.                   *)
(***************************************************************************)
GridLines ==
    { "", "Hello, World!", "ABCDEFGHIJKLMNOPQRSTUVWXYZ", "35,000 ft ~ 207°", "{¡} 100% [ok]" }

GridTails == { "", "\n3\n4\n5\n6", "\n3\n4\n5\n6\n7\n8" }

GridTexts == { l1 \o "\n" \o l2 \o tail : l1 \in GridLines, l2 \in GridLines, tail \in GridTails }
                 \cup GridLines

InitGrid ==
    /\ InitGlobals
    /\ last \in { [op |-> "text", text |-> text] : text \in GridTexts }

SendMessage(answer) ==
    /\ last.op = "text"
    /\ LET message == send_message(last.text, answer)
       IN  /\ last' = [op |-> "send_message", text |-> last.text,
                       characters |-> message.characters, success |-> message.success]
           /\ board' = posted(board, message)
    /\ UNCHANGED <<now, cache_vars, tracked_aircraft, VESTABOARD_ENABLED, notified_aircraft,
                   display, threads>>

NextGrid == \E answer \in DisplayAnswers : SendMessage(answer)

SpecGrid == InitGrid /\ [][NextGrid]_vars

(***************************************************************************)
(* format_flight_notification applied to aircraft records whose fields     *)
(* are drawn from small sets; a field may be missing from the record.      *)
(***************************************************************************)
Absent == [absent |-> TRUE]

\* the record without the fields marked missing
Present(fields) == [k \in {f \in DOMAIN fields : fields[f] # Absent} |-> fields[k]]

FormatAircraft ==
    { Present(fields) : fields \in
        [ icao24 : {Str("4ca7b3")},
          callsign : {Absent, Str(" BAW123 "), Str("SPEEDBIRD ONE TWO THREE HEAVY")},
          registration : {Absent, Str("G-ABCD"), None},
          registeredOwner : {Absent, Str("British Airways")},
          country : {Str(""), Str("United Kingdom")},
          aircraftType : {Absent, Str("Boeing : 737-800")},
          altitude : {Absent, Number(35000), Str("N/A")},
          heading : {Absent, Number(270), None},
          position : {Absent, Str("22750 ft | 207" \o DEGREE), Str("22750 ft | 207°"),
                      Str("on ground")},
          speed : {Absent, Str("450 knots")} ] }

InitFormat ==
    /\ InitGlobals
    /\ last \in { [op |-> "aircraft_data", aircraft |-> aircraft] : aircraft \in FormatAircraft }

FormatFlightNotification ==
    /\ last.op = "aircraft_data"
    /\ LET r == format_flight_notification(last.aircraft)
       IN  last' = [op |-> "format_flight_notification", aircraft |-> last.aircraft,
                    raised |-> r.raised, error |-> r.error, text |-> r.value]
    /\ UNCHANGED <<now, cache_vars, notify_vars>>

SpecFormat == InitFormat /\ [][FormatFlightNotification]_vars

(***************************************************************************)
(* The notification gate of the server: load_vestaboard_config,            *)
(* notify_new_aircraft and the endpoints /api/vestaboard/notify and        *)
(* /api/health.  An identifier is the text of the icao24 field;            *)
(* tracked_aircraft holds such texts.  display counts, per identifier, the *)
(* notification messages the display accepted (answered with status 201).  *)
(***************************************************************************)
MaxTracked == 101

\* vestaboard_config.json as load_vestaboard_config finds it: with apiKey and
\* localUrl, without one of them, or not there
ConfigFiles == {"complete", "incomplete", "missing"}

\* load_vestaboard_config returns a client (TRUE) or None (FALSE)
load_vestaboard_config(config) == config = "complete"

\* the flag after load_vestaboard_config: set when a client is returned, never reset
enabled_after_load(enabled, config) == enabled \/ config = "complete"

\* VestaboardAPI.test_connection: read_board() is not None
test_connection(answer) == answer = "ok"

already_tracked_never(icao24, tracked) == FALSE

\* line 641
already_tracked(icao24, tracked) == icao24 \in tracked

\* tracked_aircraft.add(icao24), notified_aircraft.add(icao24)
add(set, icao24) == set \cup {icao24}

count(shown, icao24) == IF icao24 \in DOMAIN shown THEN shown[icao24] ELSE 0

\* the display's history after a POST for icao24
received(shown, icao24, message) ==
    IF message.success THEN Put(shown, icao24, count(shown, icao24) + 1) ELSE shown

Gate(tracked, shown, grid) == [tracked |-> tracked, display |-> shown, board |-> grid]

\* what notify_new_aircraft did: its result or exception, whether a message
\* was posted to the display, and the sets after it
Notified(raised, value, error, was_posted, gate) ==
    [raised |-> raised, value |-> value, error |-> error, posted |-> was_posted, gate |-> gate]

\* a notify_new_aircraft that marks the aircraft whatever the display answered
mark_always(gate, icao24, message) ==
    Notified(FALSE, message.success, "", TRUE,
             Gate(add(gate.tracked, icao24), received(gate.display, icao24, message),
                  posted(gate.board, message)))

\* lines 655-664: the answer of the display to the message settles the result
mark_if_sent(gate, icao24, message) ==
    IF message.success
    THEN Notified(FALSE, TRUE, "", TRUE,
                  Gate(add(gate.tracked, icao24), received(gate.display, icao24, message),
                       posted(gate.board, message)))
    ELSE Notified(FALSE, FALSE, "", TRUE, gate)

\* lines 653-655: an exception of format_flight_notification leaves the function
send_notification(gate, icao24, notification_text, send_answer) ==
    IF notification_text.raised
    THEN Notified(TRUE, FALSE, notification_text.error, FALSE, gate)
    ELSE mark_if_sent(gate, icao24, send_message(notification_text.value, send_answer))

\* a notify_new_aircraft that does not consult the flag
notify_new_aircraft_ungated(enabled, gate, aircraft, config, test_answer, send_answer) ==
    LET icao24 == DictGet(aircraft, "icao24", None)
        False == Notified(FALSE, FALSE, "", FALSE, gate)
    IN  IF ~Truthy(icao24) THEN False
        ELSE IF already_tracked(icao24.text, gate.tracked) THEN False
        ELSE IF ~load_vestaboard_config(config) THEN False
        ELSE IF ~test_connection(test_answer) THEN False
        ELSE send_notification(gate, icao24.text, format_flight_notification(aircraft),
                               send_answer)

notify_new_aircraft(enabled, gate, aircraft, config, test_answer, send_answer) ==
    LET icao24 == DictGet(aircraft, "icao24", None)
        False == Notified(FALSE, FALSE, "", FALSE, gate)
    IN  IF ~enabled THEN False
        ELSE IF ~Truthy(icao24) THEN False
        ELSE IF already_tracked(icao24.text, gate.tracked) THEN False
        ELSE IF ~load_vestaboard_config(config) THEN False
        ELSE IF ~test_connection(test_answer) THEN False
        ELSE send_notification(gate, icao24.text, format_flight_notification(aircraft),
                               send_answer)

\* the JSON body of a request to /api/vestaboard/notify
Payload(aircraft) == [aircraft |-> aircraft]

Answer(status, body, was_posted, gate) ==
    [status |-> status, body |-> body, posted |-> was_posted, gate |-> gate]

\* lines 984-1005: the answer to the request, from what notify_new_aircraft did
notify_answer(r, t) ==
    IF r.raised THEN Answer(500, [error |-> r.error, timestamp |-> t], r.posted, r.gate)
    ELSE IF r.value
    THEN Answer(200, [status |-> "success", message |-> "Notification sent successfully",
                      timestamp |-> t], r.posted, r.gate)
    ELSE Answer(500, [error |-> "Failed to send notification", timestamp |-> t],
                r.posted, r.gate)

\* the handler of POST /api/vestaboard/notify
vestaboard_notify(enabled, gate, data, t, config, test_answer, send_answer) ==
    IF DOMAIN data = {} THEN Answer(400, [error |-> "No data provided"], FALSE, gate)
    ELSE IF DOMAIN DictGet(data, "aircraft", EmptyDict) = {}
    THEN Answer(400, [error |-> "No aircraft data provided"], FALSE, gate)
    ELSE notify_answer(notify_new_aircraft(enabled, gate, data.aircraft, config,
                                           test_answer, send_answer), t)

CurrentGate == Gate(tracked_aircraft, display, board)

icao24_of(data) ==
    LET icao24 == DictGet(DictGet(data, "aircraft", EmptyDict), "icao24", None)
    IN  IF IsStr(icao24) THEN icao24.text ELSE ""

VestaboardNotify(data, config, test_answer, send_answer) ==
    /\ Cardinality(tracked_aircraft) <= MaxTracked
    /\ \E a \in { vestaboard_notify(VESTABOARD_ENABLED, CurrentGate, data, now, config,
                                    test_answer, send_answer) } :
          /\ tracked_aircraft' = a.gate.tracked
          /\ display' = a.gate.display
          /\ board' = a.gate.board
          /\ last' = [op |-> "vestaboard_notify", icao24 |-> icao24_of(data),
                      status |-> a.status, body |-> a.body, posted |-> a.posted,
                      known |-> icao24_of(data) \in tracked_aircraft, config |-> config]
    /\ UNCHANGED <<now, cache_vars, VESTABOARD_ENABLED, notified_aircraft, threads>>

\* the handler of GET /api/health
health_check(enabled, tracked, config, test_answer) ==
    [status |-> "healthy",
     vestaboard_enabled |-> enabled_after_load(enabled, config),
     vestaboard_connected |-> load_vestaboard_config(config) /\ test_connection(test_answer),
     tracked_aircraft_count |-> Cardinality(tracked)]

HealthCheck(config, test_answer) ==
    /\ VESTABOARD_ENABLED' = enabled_after_load(VESTABOARD_ENABLED, config)
    /\ last' = [op |-> "health_check", status |-> 200, config |-> config,
                body |-> health_check(VESTABOARD_ENABLED, tracked_aircraft, config,
                                      test_answer)]
    /\ UNCHANGED <<now, cache_vars, tracked_aircraft, notified_aircraft, display, board,
                   threads>>

STATUS_SAMPLE == 10

\* the handler of GET /api/vestaboard/status; of the list of tracked identifiers,
\* whose order is the set's, the number of entries shown is kept
vestaboard_status(enabled, tracked, config, test_answer) ==
    [vestaboard_enabled |-> enabled_after_load(enabled, config),
     vestaboard_connected |-> load_vestaboard_config(config) /\ test_connection(test_answer),
     tracked_aircraft_count |-> Cardinality(tracked),
     tracked_aircraft |-> IF Cardinality(tracked) < STATUS_SAMPLE THEN Cardinality(tracked)
                          ELSE STATUS_SAMPLE]

VestaboardStatus(config, test_answer) ==
    /\ VESTABOARD_ENABLED' = enabled_after_load(VESTABOARD_ENABLED, config)
    /\ last' = [op |-> "vestaboard_status", status |-> 200, config |-> config,
                body |-> vestaboard_status(VESTABOARD_ENABLED, tracked_aircraft, config,
                                           test_answer)]
    /\ UNCHANGED <<now, cache_vars, tracked_aircraft, notified_aircraft, display, board,
                   threads>>

(***************************************************************************)
(* Notify requests handled one at a time.  Aircraft are named in the order *)
(* in which the display accepts them: a request names the next aircraft,   *)
(* the one accepted last or the one accepted first.                        *)
(***************************************************************************)
identifier(i) == "ac" \o ToString(i)

Flight(icao24) ==
    [icao24 |-> Str(icao24), callsign |-> Str("BAW123"), registration |-> Str("G-ABCD"),
     altitude |-> Number(35000), speed |-> Number(450), heading |-> Number(270)]

\* a record format_flight_notification raises on
Unformattable(icao24) == [icao24 |-> Str(icao24), altitude |-> Str("N/A")]

NotifyRequests(tracked) ==
    LET n == Cardinality(tracked)
    IN  { Payload(Flight(identifier(i))) : i \in {1, n, n + 1} \ {0} }
        \cup { Payload(Unformattable(identifier(n + 1))),
               Payload([callsign |-> Str("BAW123")]),
               Payload(EmptyDict),
               EmptyDict }

\* the display's answers to the GET of test_connection and to the POST of send_message
DisplayConditions ==
    { <<"ok", "ok">>, <<"ok", "refused">>, <<"ok", "unreachable">>,
      <<"refused", "ok">>, <<"unreachable", "ok">> }

NextNotify ==
    \/ \E config \in ConfigFiles, answer \in DisplayAnswers : HealthCheck(config, answer)
    \/ \E config \in ConfigFiles, answer \in DisplayAnswers : VestaboardStatus(config, answer)
    \/ \E data \in NotifyRequests(tracked_aircraft), config \in {"complete", "missing"},
          answers \in DisplayConditions :
          VestaboardNotify(data, config, answers[1], answers[2])

SpecNotify == Init /\ [][NextNotify]_vars

(***************************************************************************)
(* Notify requests handled on concurrent threads (app.run(threaded=True)). *)
(* A thread can be switched out wherever notify_new_aircraft waits for the *)
(* config file or the display, and between the return of send_message and  *)
(* tracked_aircraft.add: the handler is the sequence of steps Receive,     *)
(* TestConnection, Send, MarkNotified.  threads[t] is the request thread t *)
(* handles: its position pc, the aircraft, and what it did.                *)
(***************************************************************************)
Threads == {"t1", "t2"}

ThreadRequests ==
    { Payload(Flight("ac1")), Payload(Flight("ac2")), Payload(Unformattable("ac1")),
      EmptyDict }

Handling(pc, data, text, status, body, accepted) ==
    [pc |-> pc, icao24 |-> icao24_of(data), aircraft |-> DictGet(data, "aircraft", EmptyDict),
     text |-> text, status |-> status, body |-> body, accepted |-> accepted]

Failed_to_send(t) == [error |-> "Failed to send notification", timestamp |-> t]

free(thread) == IF thread \in DOMAIN threads THEN threads[thread].pc = "done" ELSE TRUE

Step(thread, handling) ==
    /\ threads' = Put(threads, thread, handling)
    /\ last' = [op |-> "notify_thread", thread |-> thread, pc |-> handling.pc,
                status |-> handling.status]

\* lines 973-646: the request is parsed and the gate is consulted
Receive(thread, data, config) ==
    /\ free(thread)
    /\ LET a == vestaboard_notify(VESTABOARD_ENABLED, CurrentGate, data, now, config,
                                  "unreachable", "unreachable")
           passes == /\ a.status = 500
                     /\ VESTABOARD_ENABLED
                     /\ icao24_of(data) # ""
                     /\ ~already_tracked(icao24_of(data), tracked_aircraft)
                     /\ load_vestaboard_config(config)
       IN  IF passes
           THEN Step(thread, Handling("test_connection", data, "", 0, EmptyDict, FALSE))
           ELSE Step(thread, Handling("done", data, "", a.status, a.body, FALSE))
    /\ UNCHANGED <<now, cache_vars, tracked_aircraft, VESTABOARD_ENABLED, notified_aircraft,
                   display, board>>

\* lines 648-653: the connection test, then the text is formatted
TestConnection(thread, answer) ==
    /\ thread \in DOMAIN threads
    /\ threads[thread].pc = "test_connection"
    /\ LET h == threads[thread]
           notification_text == format_flight_notification(h.aircraft)
       IN  IF ~test_connection(answer)
           THEN Step(thread, [h EXCEPT !.pc = "done", !.status = 500,
                                       !.body = Failed_to_send(now)])
           ELSE IF notification_text.raised
           THEN Step(thread, [h EXCEPT !.pc = "done", !.status = 500,
                                       !.body = [error |-> notification_text.error,
                                                 timestamp |-> now]])
           ELSE Step(thread, [h EXCEPT !.pc = "send_message",
                                       !.text = notification_text.value])
    /\ UNCHANGED <<now, cache_vars, tracked_aircraft, VESTABOARD_ENABLED, notified_aircraft,
                   display, board>>

\* line 655: the message is posted to the display
Send(thread, answer) ==
    /\ thread \in DOMAIN threads
    /\ threads[thread].pc = "send_message"
    /\ LET h == threads[thread]
           message == send_message(h.text, answer)
       IN  /\ display' = received(display, h.icao24, message)
           /\ board' = posted(board, message)
           /\ IF message.success
              THEN Step(thread, [h EXCEPT !.pc = "add", !.accepted = TRUE])
              ELSE Step(thread, [h EXCEPT !.pc = "done", !.status = 500,
                                          !.body = Failed_to_send(now)])
    /\ UNCHANGED <<now, cache_vars, tracked_aircraft, VESTABOARD_ENABLED, notified_aircraft>>

\* lines 657-661 and 987-992: the identifier is added and the request answered
MarkNotified(thread) ==
    /\ thread \in DOMAIN threads
    /\ threads[thread].pc = "add"
    /\ tracked_aircraft' = add(tracked_aircraft, threads[thread].icao24)
    /\ Step(thread, [threads[thread] EXCEPT
                        !.pc = "done", !.status = 200,
                        !.body = [status |-> "success",
                                  message |-> "Notification sent successfully",
                                  timestamp |-> now]])
    /\ UNCHANGED <<now, cache_vars, VESTABOARD_ENABLED, notified_aircraft, display, board>>

NextThreads ==
    \/ \E config \in ConfigFiles, answer \in DisplayAnswers : HealthCheck(config, answer)
    \/ \E thread \in Threads, data \in ThreadRequests, config \in {"complete", "missing"} :
          Receive(thread, data, config)
    \/ \E thread \in Threads, answer \in DisplayAnswers : TestConnection(thread, answer)
    \/ \E thread \in Threads, answer \in DisplayAnswers : Send(thread, answer)
    \/ \E thread \in Threads : MarkNotified(thread)

SpecThreads == Init /\ [][NextThreads]_vars

(***************************************************************************)
(* The poller (auto_detection.py): check_for_aircraft,                     *)
(* trigger_vestaboard_notifications, clear_notified_aircraft and one       *)
(* iteration of the loop of main.  The poller and the server are two       *)
(* processes: the notify request of the poller is handled by               *)
(* vestaboard_notify above, on the server's tracked_aircraft; the answers  *)
(* to its GET requests (/api/aircraft, /api/aircraft/details, hexdb) are   *)
(* JSON values received over HTTP and are drawn from sets.                 *)
(***************************************************************************)
MAX_RETRIES == 3

NOTIFIED_LIMIT == 100

NA == Str("N/A")

\* bool(d) of a dict-or-None JSON value
TruthyObject(d) == d # None /\ DOMAIN d # {}

\* a or b
Or(a, b) == IF Truthy(a) THEN a ELSE b

Or3(a, b, c) == Or(Or(a, b), c)

\* lines 166-206
fetch_public_aircraft_data(icao24, r) ==
    IF r.kind # "response" \/ r.status # 200 THEN None
    ELSE LET data == r.body
             nested == DictGet(DictGet(data, "data", EmptyDict), "aircraft", None)
             aircraft ==
                 IF TruthyObject(DictGet(data, "aircraft", None)) THEN data.aircraft
                 ELSE IF TruthyObject(nested) THEN nested
                 ELSE IF Truthy(DictGet(data, "icao24", None))
                         \/ Truthy(DictGet(data, "ModeS", None)) THEN data
                 ELSE None
             get(k) == DictGet(aircraft, k, None)
             result ==
                 [manufacturer |-> Or(get("manufacturer"), get("Manufacturer")),
                  model |-> Or(Or(Or3(get("type"), get("model"), get("aircraft_type")),
                                  get("Type")), get("ICAOTypeCode")),
                  registration |-> Or3(get("registration"), get("reg"), get("Registration")),
                  operator |-> Or3(get("operator"), get("owner"), get("RegisteredOwners")),
                  serialNumber |-> Or(get("serial_number"), get("serialnumber"))]
             kept == { k \in DOMAIN result : result[k] # None }
         IN  IF aircraft = None \/ kept = {} THEN None
             ELSE [k \in kept |-> result[k]]

DetailFields ==
    {"icao24", "registration", "manufacturer", "model", "operator", "serialNumber", "age",
     "callsign", "flightNumber", "altitude", "speed", "heading"}

\* get_aircraft_details of auto_detection.py (lines 107-164)
poller_get_aircraft_details(icao24, response, public_response) ==
    IF response.kind # "response" \/ response.status # 200 THEN None
    ELSE LET got == DictGet(response.body, "meta", EmptyDict)
             meta == IF got = None THEN EmptyDict ELSE got
             enriched_data ==
                 [k \in DetailFields |->
                     IF k = "icao24" THEN Str(icao24) ELSE DictGet(meta, k, NA)]
             needs_public_lookup ==
                 /\ enriched_data.manufacturer = NA
                 /\ enriched_data.model = NA
                 /\ enriched_data.registration = NA
             public_data == fetch_public_aircraft_data(icao24, public_response)
         IN  IF needs_public_lookup /\ public_data # None
             THEN Update(enriched_data, public_data)
             ELSE enriched_data

\* the record posted when the identifier alone is kept of a listing without details
identifier_only(detailed_aircraft, aircraft) ==
    IF detailed_aircraft = None THEN [icao24 |-> aircraft.icao24] ELSE detailed_aircraft

\* lines 229-245: the record posted to /api/vestaboard/notify
notification_data(detailed_aircraft, aircraft) ==
    IF detailed_aircraft = None THEN aircraft
    ELSE [k \in DOMAIN detailed_aircraft \cup {"distance"} |->
             IF k = "distance" THEN DictGet(aircraft, "distance", NA)
             ELSE IF k \in {"callsign", "altitude", "speed", "heading"}
                     /\ detailed_aircraft[k] = NA
             THEN DictGet(aircraft, k, NA)
             ELSE detailed_aircraft[k]]

\* lines 255-268: the answers after which the poller adds the identifier
marks_notified(response) ==
    \/ response.status = 200 /\ DictGet(response.body, "status", "") = "success"
    \/ response.status = 500
         /\ DictGet(response.body, "error", "") = "Failed to send notification"

\* the poller's set, the server's gate and the bodies posted to
\* /api/vestaboard/notify while a poll goes on
\* raised tells that an exception left the loop
Polling(notified, gate, posts) ==
    [notified |-> notified, gate |-> gate, posts |-> posts, raised |-> FALSE]

\* lines 255-274: the answer of the server is read
read_answer(st, icao24, response) ==
    Polling(IF marks_notified(response) THEN add(st.notified, icao24) ELSE st.notified,
            response.gate, st.posts)

\* lines 247-253: the body is posted to the server
\* requests.post raises when the server cannot be reached
post(st, icao24, notification_payload, env) ==
    IF env.post = "unreachable"
    THEN [st EXCEPT !.posts = Append(@, notification_payload), !.raised = TRUE]
    ELSE read_answer([st EXCEPT !.posts = Append(@, notification_payload)], icao24,
                     vestaboard_notify(env.enabled, st.gate, notification_payload,
                                       env.now, env.config, env.test, env.send))

\* lines 225-253, for an aircraft that is not in the poller's set: the details
\* are fetched and the record is posted to the server
notify_aircraft(st, aircraft, env) ==
    post(st, aircraft.icao24.text,
         Payload(notification_data(
             poller_get_aircraft_details(aircraft.icao24.text, env.details, env.public),
             aircraft)),
         env)

\* the loop of trigger_vestaboard_notifications from aircraft number i on; env
\* holds the flag and the clock of the server and the answers of hexdb, of the
\* details endpoint, of the config file and of the display during the poll
RECURSIVE trigger_vestaboard_notifications(_, _, _, _)
trigger_vestaboard_notifications(aircraft_list, i, st, env) ==
    IF i > Len(aircraft_list) \/ st.raised THEN st
    ELSE IF ~Truthy(DictGet(aircraft_list[i], "icao24", None))
    THEN trigger_vestaboard_notifications(aircraft_list, i + 1, st, env)
    ELSE IF aircraft_list[i].icao24.text \in st.notified
    THEN trigger_vestaboard_notifications(aircraft_list, i + 1, st, env)
    ELSE trigger_vestaboard_notifications(aircraft_list, i + 1,
                                          notify_aircraft(st, aircraft_list[i], env), env)

\* an exception of the loop that leaves trigger_vestaboard_notifications
reraised(st) == st

\* lines 212, 276-277: except Exception around the loop logs and returns
logged(st) == [st EXCEPT !.raised = FALSE]

RETRY_DELAY == 5

\* what one check_for_aircraft call did: the value returned, as an optional
\* number, the list received, the sets after it, the GET requests made, the
\* seconds slept and what was added to stats['errors']
Checked(value, aircraft_list, st, errors) ==
    [value |-> value, aircraft_list |-> aircraft_list, st |-> st,
     requests |-> 0, slept |-> 0, errors |-> errors]

requested(checked) == [checked EXCEPT !.requests = @ + 1]

\* the rest of the check without the delay
no_sleep(checked) == checked

\* time.sleep(RETRY_DELAY) before the rest of the check
sleep(checked) == [checked EXCEPT !.slept = @ + RETRY_DELAY]

\* response.json() returned a list
parsed(response) == "json_array" \in DOMAIN response.body

\* check_for_aircraft (lines 61-105) from attempt number attempt on.  An
\* attempt that raises, in requests.get or in response.json(), is followed by
\* the delay and the next attempt, the last one by the error count.
RECURSIVE check_for_aircraft(_, _, _, _)

\* lines 78-80 and 97-103: the count is returned after the notifications; an
\* exception of line 78 would be one more exception of the attempt
after_notifications(attempts, attempt, aircraft_list, st, env) ==
    IF ~st.raised THEN Checked(<<Len(aircraft_list)>>, aircraft_list, st, 0)
    ELSE IF attempt < MAX_RETRIES
    THEN sleep(check_for_aircraft(attempts, attempt + 1, [st EXCEPT !.raised = FALSE], env))
    ELSE Checked(<<>>, <<>>, st, 1)

check_for_aircraft(attempts, attempt, st, env) ==
    requested(
        IF attempts[attempt].kind = "response" /\ attempts[attempt].status # 200
        THEN Checked(<<>>, <<>>, st, 1)
        ELSE IF attempts[attempt].kind = "response" /\ parsed(attempts[attempt])
        THEN IF Len(attempts[attempt].body.json_array) > 0
             THEN after_notifications(attempts, attempt, attempts[attempt].body.json_array,
                                      logged(trigger_vestaboard_notifications(
                                          attempts[attempt].body.json_array, 1, st, env)),
                                      env)
             ELSE Checked(<<0>>, <<>>, st, 0)
        ELSE IF attempt < MAX_RETRIES
        THEN sleep(check_for_aircraft(attempts, attempt + 1, st, env))
        ELSE Checked(<<>>, <<>>, st, 1))

clear_at_limit(notified) ==
    IF Cardinality(notified) >= NOTIFIED_LIMIT THEN {} ELSE notified

\* lines 298-303
clear_notified_aircraft(notified) ==
    IF Cardinality(notified) > NOTIFIED_LIMIT THEN {} ELSE notified

\* the server is enabled, finds its config file and the display answers it
works(env) ==
    /\ env.enabled /\ env.config = "complete" /\ env.test = "ok" /\ env.send = "ok"
    /\ env.post = "ok"

\* one iteration of the loop of main (lines 368-382)
Poll(attempts, env) ==
    /\ \E checked \in { check_for_aircraft(attempts, 1,
                                           Polling(notified_aircraft, CurrentGate, <<>>),
                                           env) } :
          /\ notified_aircraft' = clear_notified_aircraft(checked.st.notified)
          /\ tracked_aircraft' = checked.st.gate.tracked
          /\ display' = checked.st.gate.display
          /\ board' = checked.st.gate.board
          /\ last' = [op |-> "poll", aircraft_count |-> checked.value,
                      listed |-> { checked.aircraft_list[i].icao24.text :
                                      i \in 1..Len(checked.aircraft_list) },
                      working |-> works(env),
                      notified |-> checked.st.notified,
                      details |-> env.details, posts |-> checked.st.posts,
                      post |-> env.post,
                      attempts |-> attempts, requests |-> checked.requests,
                      slept |-> checked.slept, errors |-> checked.errors]
    /\ UNCHANGED <<now, cache_vars, VESTABOARD_ENABLED, threads>>

(***************************************************************************)
(* The environment of a poll.  Aircraft are named in the order in which    *)
(* the poller comes to know them, so that its set is {ac1, ..., ack}; ac1  *)
(* stays inside the area for good and is part of every listing that is     *)
(* not empty, the others pass through one or two at a time.                *)
(***************************************************************************)
\* a record of the list /api/aircraft answers
Nearby(icao24) ==
    [icao24 |-> Str(icao24), callsign |-> Str("BAW123"),
     country |-> Str("United Kingdom"), altitude |-> Number(35000), speed |-> Number(450),
     heading |-> Number(270), distance |-> Number(2)]

Listing(icao24s) ==
    Response(200, JsonArray([i \in 1..Len(icao24s) |-> Nearby(icao24s[i])]))

Listings(notified) ==
    LET k == Cardinality(notified)
    IN  { Listing(<<>>),
          Listing(<<identifier(1), identifier(k + 1)>>),
          Listing(<<identifier(1), identifier(k + 1), identifier(k + 2)>>) }

Attempts(notified) ==
    { [a \in 1..MAX_RETRIES |-> listing] : listing \in Listings(notified) }
    \cup { [a \in 1..MAX_RETRIES |->
               IF a < MAX_RETRIES THEN Failure("connection")
               ELSE Listing(<<identifier(1)>>)],
           [a \in 1..MAX_RETRIES |->
               IF a = 1 THEN Failure("timeout") ELSE Listing(<<>>)],
           [a \in 1..MAX_RETRIES |->
               IF a = 1 THEN Failure("connection") ELSE Response(503, None)],
           [a \in 1..MAX_RETRIES |->
               IF a = 1 THEN Response(200, [invalid_json |-> TRUE])
               ELSE Listing(<<identifier(1)>>)],
           [a \in 1..MAX_RETRIES |-> Failure("connection")],
           [a \in 1..MAX_RETRIES |-> Response(500, None)] }

DetailsAnswers ==
    [ rich |-> Response(200, [meta |-> [registration |-> Str("G-ABCD"),
                                        manufacturer |-> Str("Boeing"),
                                        model |-> Str("737-800"),
                                        operator |-> Str("British Airways")]]),
      bare |-> Response(200, [meta |-> None]),
      nameless |-> Response(200, [meta |-> [registration |-> Str("G-ABCD"),
                                            callsign |-> None]]),
      none |-> Response(500, None),
      timeout |-> Failure("timeout") ]

HexdbAnswer ==
    Response(200, [ModeS |-> Str("4CA7B3"), Manufacturer |-> Str("Boeing"),
                   Type |-> Str("737-800"), Registration |-> Str("G-ABCD")])

\* post tells whether the server can be reached for the POST of a notification
Environment(details, config, test_answer, send_answer, post_answer) ==
    [enabled |-> VESTABOARD_ENABLED, now |-> now, details |-> DetailsAnswers[details],
     public |-> HexdbAnswer, config |-> config, test |-> test_answer, send |-> send_answer,
     post |-> post_answer]

Working == <<"rich", "complete", "ok", "ok", "ok">>

\* the display, the config file and the details endpoint fail only in a poll
\* the poller begins with an empty set
PollConditions(notified) ==
    IF notified # {} THEN {Working}
    ELSE { Working,
           <<"bare", "complete", "ok", "ok", "ok">>,
           <<"none", "complete", "ok", "refused", "ok">>,
           <<"none", "complete", "ok", "ok", "ok">>,
           <<"timeout", "complete", "ok", "ok", "ok">>,
           <<"rich", "complete", "unreachable", "ok", "ok">>,
           <<"nameless", "complete", "ok", "ok", "ok">>,
           <<"rich", "missing", "ok", "ok", "ok">>,
           <<"rich", "complete", "ok", "ok", "unreachable">> }

\* main, lines 323-345: the server is asked for its health and for the status
\* of the display before the loop begins
Startup(config, test_answer) ==
    /\ last.op = "init"
    /\ HealthCheck(config, test_answer)

MainLoop(attempts, c) ==
    /\ last.op # "init"
    /\ Poll(attempts, Environment(c[1], c[2], c[3], c[4], c[5]))

NextPoller ==
    \/ \E config \in ConfigFiles, answer \in DisplayAnswers : Startup(config, answer)
    \/ \E attempts \in Attempts(notified_aircraft), c \in PollConditions(notified_aircraft) :
          MainLoop(attempts, c)

InitPoller == Init /\ csv_file = EmptyDict

SpecPoller == InitPoller /\ [][NextPoller]_vars

(***************************************************************************)
(* C1: for any key, a get_cached_or_fetch call made less than              *)
(* CACHE_DURATION seconds after the call that last fetched and stored the  *)
(* key's value does not invoke the fetch function and returns that stored  *)
(* value (two calls within the lifetime fetch exactly once); a call made   *)
(* once the lifetime has elapsed invokes the fetch function again.         *)
(***************************************************************************)
C1_FetchOncePerLifetime ==
    [][ (last'.op = "get_cached_or_fetch" /\ now' = now /\ last'.key \in DOMAIN fetch_log) =>
          LET k == last'.key
              first == fetch_log[k]
          IN  /\ now - first.at < CACHE_DURATION =>
                    /\ last'.calls[1].kind = "hit"
                    /\ ~last'.raised
                    /\ last'.body = first.value
                    /\ fetch_log' = fetch_log
              /\ now - first.at >= CACHE_DURATION =>
                    /\ last'.calls[1].kind = "fetch"
                    /\ (~last'.raised => fetch_log'[k].at = now) ]_vars

\* a second call, later than the first and inside the lifetime, was served from the cache
C1_Witness ==
    /\ last.op = "get_cached_or_fetch"
    /\ last.calls[1].kind = "hit"
    /\ last.calls[1].age > 0
    /\ last.calls[1].age < CACHE_DURATION
    /\ last.key \in DOMAIN fetch_log
    /\ last.body = fetch_log[last.key].value

(***************************************************************************)
(* C3: a fetch that returns None (an upstream 404) is stored with the      *)
(* current timestamp like any other value, and a further call for the key  *)
(* within the lifetime returns None without invoking the fetch function.   *)
(***************************************************************************)
C3_NoneIsCached ==
    [][ (last'.op = "get_cached_or_fetch" /\ now' = now) =>
          LET k == last'.key
          IN  /\ (last'.calls[1].kind = "fetch" /\ ~last'.raised /\ last'.body = None) =>
                    /\ k \in DOMAIN cache'
                    /\ cache'[k] = [data |-> None, timestamp |-> now]
              /\ (/\ k \in DOMAIN fetch_log
                  /\ fetch_log[k].value = None
                  /\ now - fetch_log[k].at < CACHE_DURATION) =>
                    /\ last'.calls[1].kind = "hit"
                    /\ last'.body = None
                    /\ ~last'.raised
                    /\ cache' = cache ]_vars

\* a stored None was returned from the cache by a later call inside the lifetime
C3_Witness ==
    /\ last.op = "get_cached_or_fetch"
    /\ last.calls[1].kind = "hit"
    /\ last.calls[1].age > 0
    /\ last.body = None
    /\ cache[last.key].data = None

(***************************************************************************)
(* The steps of a details request that concern the aircraft's metadata,    *)
(* in the order they were taken, and the place of each source in the       *)
(* chain.                                                                  *)
(***************************************************************************)
IsMetadataStep(e) == e.key[1] \in {"aircraft_details", "registry", "csv", "metadata"}

MetadataSteps(calls) == SelectSeq(calls, IsMetadataStep)

SourceRank(e) ==
    CASE e.src = "aerodatabox" -> 1
      [] e.src = "hexdb" -> 2
      [] e.src = "adsbexchange" -> 3
      [] e.src = "opensky_csv" -> 4
      [] OTHER -> 0

MetadataFields == {"model", "manufacturer", "registration", "operator", "serialNumber"}

AllNull(rec) == \A f \in DOMAIN rec : rec[f] = NULL

RECURSIVE FirstNonNull(_, _, _)
FirstNonNull(ms, i, f) ==
    IF i > Len(ms) THEN NULL
    ELSE IF ms[i].value # None /\ Get(ms[i].value, f) # NULL THEN Get(ms[i].value, f)
    ELSE FirstNonNull(ms, i + 1, f)

(***************************************************************************)
(* C4: in a details lookup an error (timeout, connection error, error      *)
(* status) of any metadata source, the primary API included, is turned     *)
(* into "absent" and the next source of the chain is tried.                *)
(***************************************************************************)
C4_SourceErrorDoesNotAbort ==
    last.op = "details" =>
        LET ms == MetadataSteps(last.calls)
        IN  \A i \in 1..Len(ms) :
                (ms[i].yield = "error" /\ ms[i].src # "opensky_csv") => Len(ms) > i

(***************************************************************************)
(* C5: the metadata of the details output is the field-wise first-non-null *)
(* merge, in priority order, of what the sources consulted have yielded.   *)
(***************************************************************************)
C5_FieldwiseFirstNonNull ==
    (last.op = "details" /\ last.status = 200) =>
        LET ms == MetadataSteps(last.calls)
            meta == last.body.meta
        IN  \A f \in MetadataFields :
                (IF meta = None THEN NULL ELSE meta[f]) = FirstNonNull(ms, 1, f)

C7_FallbackRecordIsReused ==
    [][ (/\ last'.op = "details"
         /\ now' = now
         /\ <<"metadata", last'.icao24>> \in DOMAIN fetch_log
         /\ now - fetch_log[<<"metadata", last'.icao24>>].at < CACHE_DURATION) =>
          LET ms == MetadataSteps(last'.calls)
              found == fetch_log[<<"metadata", last'.icao24>>].value
          IN  /\ \A i \in 1..Len(ms) : ms[i].kind \notin {"registry", "csv"}
              /\ ms[1].yield \in {"absent", "no_useful_field"} =>
                    /\ Len(ms) = 2
                    /\ ms[2].kind = "metadata_cache"
                    /\ ms[2].value = found
                    /\ last'.status = 200 => last'.body.rawData.aircraft = found ]_vars

\* a later lookup inside the lifetime was answered from aircraft_metadata_cache
C7_Witness ==
    /\ last.op = "details"
    /\ last.status = 200
    /\ <<"metadata", last.icao24>> \in DOMAIN fetch_log
    /\ now > fetch_log[<<"metadata", last.icao24>>].at
    /\ now - fetch_log[<<"metadata", last.icao24>>].at < CACHE_DURATION
    /\ Len(MetadataSteps(last.calls)) = 2
    /\ MetadataSteps(last.calls)[2].kind = "metadata_cache"
    /\ last.body.rawData.aircraft = fetch_log[<<"metadata", last.icao24>>].value

(***************************************************************************)
(* C8: when every metadata source has yielded nothing for an identifier,   *)
(* that outcome is cached: a repeat lookup within the cache lifetime       *)
(* contacts no source again and returns absent metadata without an error.  *)
(***************************************************************************)
C8_NoMetadataIsCached ==
    [][ (/\ last'.op = "details"
         /\ now' = now
         /\ <<"no_metadata", last'.icao24>> \in DOMAIN fetch_log
         /\ now - fetch_log[<<"no_metadata", last'.icao24>>].at < CACHE_DURATION) =>
          LET ms == MetadataSteps(last'.calls)
          IN  /\ \A i \in 1..Len(ms) : ms[i].kind \notin {"fetch", "registry", "csv"}
              /\ last'.status = 200
              /\ last'.body.meta = None ]_vars

(***************************************************************************)
(* C9: a cached metadata record has a lifetime, whichever source it came   *)
(* from: once CACHE_DURATION seconds have elapsed since it was stored, a   *)
(* lookup treats it as absent and obtains it again from the sources.       *)
(***************************************************************************)
C9_MetadataRecordExpires ==
    [][ (last'.op = "details" /\ now' = now) =>
          LET ms == MetadataSteps(last'.calls)
              primary == details_cache_key(last'.icao24)
              fallback == <<"metadata", last'.icao24>>
          IN  /\ (primary \in DOMAIN fetch_log /\ now - fetch_log[primary].at >= CACHE_DURATION)
                    => ms[1].kind = "fetch"
              /\ (fallback \in DOMAIN fetch_log /\ now - fetch_log[fallback].at >= CACHE_DURATION)
                    => \A i \in 1..Len(ms) : ms[i].kind # "metadata_cache" ]_vars

(***************************************************************************)
(* C10: a registry answer that parses to a record with every field null    *)
(* does not end the chain (the next registry, then the CSV, is tried) and  *)
(* is not cached as the identifier's metadata.                             *)
(***************************************************************************)
C10_AllNullRecordDoesNotEndChain ==
    last.op = "details" =>
        LET ms == MetadataSteps(last.calls)
        IN  \A i \in 1..Len(ms) :
                (ms[i].kind = "registry" /\ ms[i].value # None /\ AllNull(ms[i].value)) =>
                    /\ Len(ms) > i
                    /\ last.icao24 \in DOMAIN aircraft_metadata_cache =>
                          aircraft_metadata_cache[last.icao24] # ms[i].value

(***************************************************************************)
(* C2: no request path uses a cache entry whose age is CACHE_DURATION      *)
(* seconds or more: every cache entry a request reads and uses, whether    *)
(* through get_cached_or_fetch (the details endpoint, the nearby lookup)   *)
(* or in the enrichment of the nearby listing, is younger than             *)
(* CACHE_DURATION at the time of the request.                              *)
(***************************************************************************)
C2_NoStaleEntryUsed ==
    \A i \in 1..Len(last.calls) :
        last.calls[i].kind \in {"hit", "peek"} => last.calls[i].age < CACHE_DURATION

(***************************************************************************)
(* C11: in the details endpoint the failure of a single sub-fetch does not  *)
(* fail the request.  Stated for the flight and the two airport fetches    *)
(* (the aircraft record is the matter of C4): whenever one of them ended   *)
(* in an error, the request is still answered with status 200.             *)
(***************************************************************************)
C11_SubFetchFailureDoesNotFail ==
    (/\ last.op = "details"
     /\ \E i \in 1..Len(last.calls) :
           /\ last.calls[i].kind = "fetch"
           /\ last.calls[i].yield = "error"
           /\ last.calls[i].key[1] \in {"aircraft_flight", "airport"})
    => last.status = 200

(***************************************************************************)
(* C18: the text format_flight_notification returns has exactly 6 lines    *)
(* and every line is at most 22 characters long.                           *)
(***************************************************************************)
C18_SixLinesOfAtMost22 ==
    (last.op = "format_flight_notification" /\ ~last.raised)
    => /\ Len(split_lines(last.text)) = 6
       /\ \A i \in 1..Len(split_lines(last.text)) :
             Len(split_lines(last.text)[i]) <= DISPLAY_COLUMNS

(***************************************************************************)
(* C19: an explicit numeric altitude of the record is what the altitude    *)
(* line shows, and an explicit numeric heading is what the heading line    *)
(* shows: neither is replaced by a value parsed from the position string.  *)
(***************************************************************************)
C19_ExplicitFieldIsKept ==
    (last.op = "format_flight_notification" /\ ~last.raised)
    => LET altitude == DictGet(last.aircraft, "altitude", None)
           heading == DictGet(last.aircraft, "heading", None)
       IN  /\ (IsNumber(altitude) /\ altitude.number # 0)
                 => split_lines(last.text)[4] = thousands(altitude.number) \o " ft"
           /\ (IsNumber(heading) /\ heading.number # 0)
                 => split_lines(last.text)[6] = ToString(heading.number) \o DEGREE

(***************************************************************************)
(* C20: the grid send_message posts has exactly 6 rows of exactly 22       *)
(* codes; every code is a code of the character table and lies in 0..70;   *)
(* the cell of row r and column c holds the code of character c of line r  *)
(* of the text, upper-cased, or 0 when that character is outside the table *)
(* or the text has no such character; so what lies beyond 6 lines or       *)
(* beyond 22 characters of a line is dropped.                              *)
(***************************************************************************)
C20_GridIsSixByTwentyTwo ==
    last.op = "send_message"
    => LET grid == last.characters
           lines == split_lines(last.text)
       IN  /\ DOMAIN grid = 1..6
           /\ \A row \in 1..6 :
                 /\ DOMAIN grid[row] = 1..22
                 /\ \A column \in 1..22 :
                       /\ grid[row][column] \in 0..70
                       /\ \E char \in DOMAIN char_codes : char_codes[char] = grid[row][column]
                       /\ IF row <= Len(lines) /\ column <= Len(lines[row])
                             /\ upper(char_at(lines[row], column)) \in DOMAIN char_codes
                          THEN grid[row][column]
                                  = char_codes[upper(char_at(lines[row], column))]
                          ELSE grid[row][column] = 0

C20_Witness ==
    /\ last.op = "send_message"
    /\ Len(split_lines(last.text)) > 6
    /\ Len(split_lines(last.text)[1]) > 22
    /\ \E column \in 1..22 :
          /\ column <= Len(split_lines(last.text)[2])
          /\ upper(char_at(split_lines(last.text)[2], column)) \notin DOMAIN char_codes

C17_TrackedStaysBounded == Cardinality(tracked_aircraft) <= 100

(***************************************************************************)
(* C14: with notify requests handled on concurrent threads, no two         *)
(* requests for the same identifier both have their message accepted by    *)
(* the display.                                                            *)
(***************************************************************************)
C14_OneMessageInAnyInterleaving ==
    \A t1 \in DOMAIN threads, t2 \in DOMAIN threads :
        (t1 # t2 /\ threads[t1].accepted /\ threads[t2].accepted)
        => threads[t1].icao24 # threads[t2].icao24

(***************************************************************************)
(* C13: an identifier is in tracked_aircraft or in notified_aircraft only  *)
(* if the display has accepted a notification message for it.              *)
(***************************************************************************)
C13_NotifiedOnlyAfterAccepted ==
    \A icao24 \in tracked_aircraft \cup notified_aircraft : count(display, icao24) >= 1

(***************************************************************************)
(* C15: when a poll ends with more than 100 identifiers in the poller's    *)
(* set (101 after the 101st insertion), clear_notified_aircraft leaves the *)
(* set empty; with 100 or fewer it leaves the set as it was.               *)
(***************************************************************************)
C15_ClearedAboveTheLimit ==
    last.op = "poll"
    => /\ Cardinality(last.notified) > 100 => notified_aircraft = {}
       /\ Cardinality(last.notified) <= 100 => notified_aircraft = last.notified

C15_Witness ==
    /\ last.op = "poll"
    /\ Cardinality(last.notified) = 101
    /\ notified_aircraft = {}

(***************************************************************************)
(* C16: when a poll has cleared the poller's set while ac1, which the      *)
(* display had been notified of, was in it, and the next poll lists ac1    *)
(* again with the server enabled and the display answering, the display    *)
(* accepts a new notification for ac1 in that poll.  (A poll in which the  *)
(* server answers puts ac1 back into the poller's set, so that this poll   *)
(* is the only one that can notify ac1 before the next clear.)             *)
(***************************************************************************)
C16_LingeringAircraftNotifiedAgain ==
    [][ (/\ last.op = "poll"
         /\ Cardinality(last.notified) > NOTIFIED_LIMIT
         /\ identifier(1) \in last.notified
         /\ notified_aircraft = {}
         /\ count(display, identifier(1)) = 1
         /\ last'.op = "poll"
         /\ identifier(1) \in last'.listed
         /\ last'.working)
        => count(display', identifier(1)) > count(display, identifier(1)) ]_vars

(***************************************************************************)
(* process_opensky_states on its own: every upstream answer of up to       *)
(* MaxStates state vectors, among them vectors without a latitude or a     *)
(* longitude, one just inside, one exactly at and one just outside a       *)
(* radius of 3 km, and two whose distances round to the same tenth.        *)
(***************************************************************************)
MaxStates == 3

StateVectors ==
    { StateVector("3c6444", "DLH400", <<51>>, <<0>>, <<11000>>, 2990),
      StateVector("4ca7b3", " BAW123 ", <<51>>, <<0>>, <<10668>>, 3000),
      StateVector("a0b1c2", "", <<51>>, <<0>>, <<>>, 3001),
      StateVector("06a0e1", NULL, <<>>, <<0>>, <<0>>, 0),
      StateVector("06a0e2", NULL, <<51>>, <<>>, <<0>>, 0),
      StateVector("400a01", "EZY12", <<51>>, <<0>>, <<900>>, 1230),
      StateVector("400a02", "EZY34", <<51>>, <<0>>, <<900>>, 1210) }

StatesLists ==
    { states \in UNION { [1..n -> StateVectors] : n \in 0..MaxStates } :
        \A i, j \in DOMAIN states : i # j => states[i].icao24 # states[j].icao24 }

StatesData ==
    { [time |-> 1714554000, states |-> states] : states \in StatesLists }
    \cup { None, [time |-> 1714554000] }

Radii == {1, DEFAULT_RADIUS}

InitStates ==
    /\ InitGlobals
    /\ last \in { [op |-> "states_data", states_data |-> states_data, radius_km |-> radius_km] :
                    states_data \in StatesData, radius_km \in Radii }

ProcessOpenskyStates ==
    /\ last.op = "states_data"
    /\ last' = [op |-> "process_opensky_states", states_data |-> last.states_data,
                radius_km |-> last.radius_km,
                result |-> process_opensky_states(last.states_data, 51, 0, last.radius_km)]
    /\ UNCHANGED <<now, cache_vars, notify_vars>>

SpecStates == InitStates /\ [][ProcessOpenskyStates]_vars

Processed == last.op = "process_opensky_states"

\* the state vectors handed to process_opensky_states, none when the answer has none
states_of(states_data) ==
    IF TruthyDict(states_data) /\ "states" \in DOMAIN states_data THEN states_data.states ELSE <<>>

has_position(state) == state.latitude # <<>> /\ state.longitude # <<>>

within_radius(state, radius_km) == state.distance_m <= radius_km * 1000

\* C21: every record process_opensky_states returns comes from a state vector
\* that has a latitude and a longitude and whose unrounded distance to the
\* center is at most the radius, and a state vector with a position at exactly
\* the radius is returned.
C21_ReturnedWithinRadius ==
    Processed =>
        LET states == states_of(last.states_data)
        IN  /\ \A i \in DOMAIN last.result :
                \E j \in DOMAIN states :
                    /\ states[j].icao24 = last.result[i].icao24
                    /\ has_position(states[j])
                    /\ within_radius(states[j], last.radius_km)
            /\ \A j \in DOMAIN states :
                (has_position(states[j]) /\ states[j].distance_m = last.radius_km * 1000)
                    => \E i \in DOMAIN last.result : last.result[i].icao24 = states[j].icao24

C21_Witness ==
    /\ Processed
    /\ LET states == states_of(last.states_data)
       IN  /\ \E j \in DOMAIN states :
                 /\ states[j].distance_m = last.radius_km * 1000
                 /\ has_position(states[j])
                 /\ \E i \in DOMAIN last.result : last.result[i].icao24 = states[j].icao24
           /\ \E j \in DOMAIN states : ~has_position(states[j])
           /\ \E j \in DOMAIN states :
                 has_position(states[j]) /\ ~within_radius(states[j], last.radius_km)

EARTH_RADIUS_KM == 6371

LAT_KM_HUNDREDTHS == 11132

abs(x) == IF x < 0 THEN -x ELSE x

\* math.radians, from thousandths of a degree to millionths of a radian
radians(thousandths) == (abs(thousandths) * 174533 + 9999) \div 10000

\* math.cos(math.radians(lat)), in thousandths, for the latitudes of the centers
cos_thousandths(lat) == IF lat = 0 THEN 1000 ELSE 500

CenterLatitudes == {0, 60000}

\* R * c in metres, where c is dlat on a meridian and dlon on the equator
calculate_distance(lat1, lon1, lat2, lon2) ==
    IF lon1 = lon2 THEN (EARTH_RADIUS_KM * radians(lat2 - lat1)) \div 1000
    ELSE (EARTH_RADIUS_KM * radians(lon2 - lon1)) \div 1000

\* lon_km = 111.32 * cos(lat), in hundredths of a kilometre
lon_km_hundredths(lat) == (LAT_KM_HUNDREDTHS * cos_thousandths(lat)) \div 1000

\* lamin <= latitude <= lamax and lomin <= longitude <= lomax, with
\* lat_delta = radius_km / lat_km and lon_delta = radius_km / lon_km
in_bounding_box(lat, lon, radius_km, latitude, longitude) ==
    /\ abs(latitude - lat) * LAT_KM_HUNDREDTHS <= radius_km * 100000
    /\ abs(longitude - lon) * lon_km_hundredths(lat) <= radius_km * 100000

MaxOffset == 900

Offsets == {0, 26, 27, 449, 450, MaxOffset - 2, MaxOffset - 1, MaxOffset}

BoxRadii == {DEFAULT_RADIUS, 50, 100}

\* a point north, south, east or west of the center
Points(lat) ==
    { [latitude |-> lat + d, longitude |-> 0] : d \in Offsets }
    \cup { [latitude |-> lat - d, longitude |-> 0] : d \in Offsets }
    \cup (IF lat = 0
          THEN { [latitude |-> 0, longitude |-> d] : d \in Offsets }
               \cup { [latitude |-> 0, longitude |-> -d] : d \in Offsets }
          ELSE {})

InitBox ==
    /\ InitGlobals
    /\ last \in { [op |-> "point", lat |-> lat, lon |-> 0, radius_km |-> radius_km,
                   latitude |-> p.latitude, longitude |-> p.longitude] :
                    lat \in CenterLatitudes, radius_km \in BoxRadii, p \in Points(0) \cup Points(60000) }
    /\ [latitude |-> last.latitude, longitude |-> last.longitude] \in Points(last.lat)

\* the upstream query for the box followed by the exact check of one state vector
FetchAndProcess ==
    /\ last.op = "point"
    /\ last' = [op |-> "fetch_and_process", lat |-> last.lat, lon |-> last.lon,
                radius_km |-> last.radius_km,
                latitude |-> last.latitude, longitude |-> last.longitude,
                in_box |-> in_bounding_box(last.lat, last.lon, last.radius_km,
                                           last.latitude, last.longitude),
                distance_m |-> calculate_distance(last.lat, last.lon,
                                                  last.latitude, last.longitude)]
    /\ UNCHANGED <<now, cache_vars, notify_vars>>

SpecBox == InitBox /\ [][FetchAndProcess]_vars

\* C23: a point whose great-circle distance to the center is at most the
\* radius lies inside the bounding box fetch_opensky_states asks for.
C23_BoxContainsCircle ==
    (last.op = "fetch_and_process" /\ last.distance_m <= last.radius_km * 1000) => last.in_box

(***************************************************************************)
(* The nearby listing with more aircraft than the enrichment reaches: an   *)
(* upstream answer of seven state vectors inside the radius, of which      *)
(* "3c6444" is the nearest and "4ca7b3" the sixth, and details requests    *)
(* for both, which fill the cache.  In this environment AeroDataBox has a  *)
(* record and a flight for every aircraft it is asked about.  The listing  *)
(* is asked for with every query of NearbyQueries, the refused ones too.   *)
(***************************************************************************)
ListedIcao24s == {"3c6444", "4ca7b3"}

CrowdedSky ==
    Response(200, [time |-> 1714554000,
                   states |-> << StateVector("4ca7b3", "BAW123", <<51>>, <<0>>, <<10668>>, 1000),
                                 StateVector("400a01", "EZY12", <<51>>, <<0>>, <<900>>, 600),
                                 StateVector("400a02", "EZY34", <<51>>, <<0>>, <<900>>, 700),
                                 StateVector("3c6444", "DLH400", <<51>>, <<0>>, <<11000>>, 500),
                                 StateVector("400a03", "EZY56", <<51>>, <<0>>, <<900>>, 1100),
                                 StateVector("400a04", "EZY78", <<51>>, <<0>>, <<900>>, 800),
                                 StateVector("400a05", "EZY90", <<51>>, <<0>>, <<900>>, 900) >>])

CrowdedResponses == { CrowdedSky, Response(429, None) }

KnownAircraft == Response(200, AircraftBody("737", "Boeing", "G-ABCD", "British Airways"))

KnownFlight == Response(200, FlightBody)

NextNearby ==
    \/ Tick(TickStep)
    \/ \E icao24 \in ListedIcao24s :
          GetAircraftDetails(icao24, KnownAircraft, NoPublicRecord, KnownFlight, NoAirports)
    \/ GetAircraftDetailsMissing
    \/ \E q \in NearbyQueries, rSky \in CrowdedResponses :
          GetNearbyAircraft(q.lat, q.lon, q.radius, rSky)

SpecNearby == Init /\ [][NextNearby]_vars

Listed == last.op = "nearby" /\ last.status = 200

ENRICHMENT_FIELDS ==
    {"manufacturer", "model", "registration", "operator", "owner", "flightNumber", "route"}

\* C24: in the nearby listing a record at position 6 or later carries none of
\* the enrichment fields, whatever the cache holds for its aircraft.
C24_OnlyFiveEnriched ==
    Listed =>
        \A i \in DOMAIN last.body.json_array :
            i > ENRICHMENT_LIMIT => DOMAIN last.body.json_array[i] \cap ENRICHMENT_FIELDS = {}

C24_Witness ==
    /\ Listed
    /\ Len(last.body.json_array) > ENRICHMENT_LIMIT
    /\ LET sixth == last.body.json_array[ENRICHMENT_LIMIT + 1]
       IN  /\ details_cache_key(sixth.icao24) \in DOMAIN cache
           /\ TruthyDict(cache[details_cache_key(sixth.icao24)].data)
           /\ flight_cache_key(sixth.icao24) \in DOMAIN cache
    /\ ENRICHMENT_FIELDS \subseteq DOMAIN last.body.json_array[1]

\* C25: each of the 5 nearest records of the nearby listing is returned with
\* the metadata its sources have, also when nothing about the aircraft was in
\* the cache before the request.
C25_NearestFiveLookedUp ==
    Listed =>
        \A i \in DOMAIN last.body.json_array :
            i <= ENRICHMENT_LIMIT => "manufacturer" \in DOMAIN last.body.json_array[i]

\* a query the listing must refuse: lat or lon missing or not a number, or a
\* number outside its range
Refused(q) ==
    \/ q.lat.kind # "number"
    \/ q.lon.kind # "number"
    \/ q.lat.value < -90 \/ q.lat.value > 90
    \/ q.lon.value < -180 \/ q.lon.value > 180
    \/ (q.radius.kind = "number" /\ (q.radius.value < 1 \/ q.radius.value > 100))

RefusedQueries == { q \in NearbyQueries : Refused(q) }

AnsweredWith400 ==
    /\ last'.status = 400
    /\ last'.calls = <<>>
    /\ UNCHANGED cache_vars

\* C26: a nearby request with lat or lon missing or non-numeric, or with lat,
\* lon or radius outside its range, and a details request without icao24, is
\* answered with status 400, calls no upstream and leaves the caches as they were.
C26_InvalidRequestsRefused ==
    [][ /\ \A q \in RefusedQueries :
            (/\ last'.op = "nearby"
             /\ \E rSky \in CrowdedResponses : GetNearbyAircraft(q.lat, q.lon, q.radius, rSky))
                => AnsweredWith400
        /\ GetAircraftDetailsMissing => AnsweredWith400 ]_vars

C26_Witness ==
    /\ last.op = "nearby"
    /\ last.status = 400
    /\ last.body = error_400("Radius must be between 1 and 100 km")
    /\ details_cache_key("4ca7b3") \in DOMAIN cache
    /\ nearby_cache_key(51, 0, DEFAULT_RADIUS) \in DOMAIN cache

\* C27: the body of every answer with status 400, 404 or 500 holds an error
\* text and a timestamp.
C27_ErrorBodiesCarryTimestamp ==
    last.status \in {400, 404, 500} =>
        /\ "error" \in DOMAIN last.body
        /\ "timestamp" \in DOMAIN last.body

\* the one query of NearbyQueries the listing accepts
Here == Query(Num(51), Num(0), Missing)

\* the cache has no fresh entry under the key, so a request for it goes upstream
Unfetched(cache_key) ==
    IF cache_key \in DOMAIN cache THEN ~is_fresh(now, cache[cache_key].timestamp) ELSE TRUE

\* the request left an absent value in the cache, stored at the time of the request
StoredAbsent(cache_key) ==
    /\ cache_key \in DOMAIN cache'
    /\ cache'[cache_key] = [data |-> None, timestamp |-> now]

\* C28: a listing request that OpenSky answers with status 404 is answered with
\* status 200 and the empty list, and a details request whose AeroDataBox
\* answers are status 404 or a record is answered with status 200, without
\* route and position when the flight was not found; each 404 received is in
\* the cache afterwards as an absent value stored at the time of the request.
C28_NotFoundIsNotAnError ==
    [][ /\ (/\ last'.op = "nearby"
            /\ GetNearbyAircraft(Here.lat, Here.lon, Here.radius, NotFound))
           => /\ last'.status = 200
              /\ Unfetched(nearby_cache_key(51, 0, DEFAULT_RADIUS))
                    => /\ StoredAbsent(nearby_cache_key(51, 0, DEFAULT_RADIUS))
                       /\ last'.body = JsonArray(<<>>)
        /\ \A icao24 \in ICAO24S, rDet \in DetailsResponses, rFlt \in FlightResponses :
              (/\ last'.op = "details"
               /\ NotFound \in {rDet, rFlt}
               /\ GetAircraftDetails(icao24, rDet, NoPublicRecord, rFlt, NoAirports))
              => /\ last'.status = 200
                 /\ (rDet = NotFound /\ Unfetched(details_cache_key(icao24)))
                       => StoredAbsent(details_cache_key(icao24))
                 /\ (rFlt = NotFound /\ Unfetched(flight_cache_key(icao24)))
                       => /\ StoredAbsent(flight_cache_key(icao24))
                          /\ last'.body.route = None
                          /\ last'.body.position = None ]_vars

C28_Witness ==
    /\ last.op = "nearby"
    /\ last.status = 200
    /\ last.body = JsonArray(<<>>)
    /\ nearby_cache_key(51, 0, DEFAULT_RADIUS) \in DOMAIN cache
    /\ cache[nearby_cache_key(51, 0, DEFAULT_RADIUS)].data = None
    /\ flight_cache_key("4ca7b3") \in DOMAIN cache
    /\ cache[flight_cache_key("4ca7b3")].data = None

\* the last request failed on status 401 or 403 from AeroDataBox
AuthFailure == last.status = 500 /\ last.body.error = "Invalid AeroDataBox API credentials"

\* C29: the request that follows one AeroDataBox answered with status 401 or
\* 403 does not query AeroDataBox.
C29_NoQueryAfterAuthFailure ==
    [][ (AuthFailure /\ now' = now) =>
            \A i \in DOMAIN last'.calls :
                ~(last'.calls[i].kind = "fetch" /\ last'.calls[i].src = "aerodatabox") ]_vars

Polled == last.op = "poll"

\* the number of the first attempt the server answered with a status, or
\* MAX_RETRIES when it answered none
first_response(attempts) ==
    IF \E a \in 1..MAX_RETRIES : attempts[a].kind = "response"
    THEN CHOOSE a \in 1..MAX_RETRIES :
            /\ attempts[a].kind = "response"
            /\ \A b \in 1..(a - 1) : attempts[b].kind # "response"
    ELSE MAX_RETRIES

\* C30: a check makes between 1 and MAX_RETRIES requests and sleeps RETRY_DELAY
\* once after each attempt but the last one it makes; it returns a count and
\* leaves the error counter alone, or returns None and adds one to it; a
\* status other than 200 ends it at that attempt with None.
C30_BoundedRetries ==
    Polled =>
        /\ last.requests \in 1..MAX_RETRIES
        /\ last.slept = RETRY_DELAY * (last.requests - 1)
        /\ last.errors = IF last.aircraft_count = <<>> THEN 1 ELSE 0
        /\ LET a == first_response(last.attempts)
           IN  (last.attempts[a].kind = "response" /\ last.attempts[a].status # 200)
                  => (last.requests = a /\ last.aircraft_count = <<>>)
        /\ (\A a \in 1..MAX_RETRIES : last.attempts[a].kind # "response")
              => (last.requests = MAX_RETRIES /\ last.aircraft_count = <<>>)

C30_Witness ==
    /\ Polled
    /\ last.requests = MAX_RETRIES
    /\ last.slept = RETRY_DELAY * (MAX_RETRIES - 1)
    /\ last.aircraft_count = <<1>>
    /\ last.errors = 0

\* the details endpoint did not answer the poller's lookups with status 200
DetailsFailed(response) == response.kind # "response" \/ response.status # 200

\* C31: in a poll whose detail lookups fail, the poller posts, for every listed
\* aircraft that was not in its set, the record of the listing as it received it.
C31_PartialDataPosted ==
    [][ (last'.op = "poll" /\ DetailsFailed(last'.details)) =>
            \A icao24 \in last'.listed \ notified_aircraft :
                \E i \in DOMAIN last'.posts : last'.posts[i] = Payload(Nearby(icao24)) ]_vars

C31_Witness ==
    /\ Polled
    /\ DetailsFailed(last.details)
    /\ last.working
    /\ Len(last.posts) = 2
    /\ \A icao24 \in last.listed : count(display, icao24) = 1

\* the upstream calls and cache reads of the last request under a kind of key
CallsFor(kind) == { i \in DOMAIN last.calls : last.calls[i].key[1] = kind }

\* the flight detail names an airport code for the departure and for the arrival
BothCodes(flight_info) ==
    /\ TruthyDict(flight_info)
    /\ {"departure", "arrival"} \subseteq DOMAIN flight_info
    /\ TruthyStr(airport_icao(flight_info, "departure"))
    /\ TruthyStr(airport_icao(flight_info, "arrival"))

\* C32: the route of a details answer is non-null exactly when the flight
\* detail names both airport codes; the two airport lookups are made in that
\* case and no airport lookup is made in any other.
C32_RouteExactlyWithBothCodes ==
    last.op = "details" =>
        /\ last.status = 200 =>
              \A i \in CallsFor("aircraft_flight") :
                  /\ (last.body.route # None) <=> BothCodes(last.calls[i].value)
                  /\ BothCodes(last.calls[i].value) =>
                        { last.calls[j].key[2] : j \in CallsFor("airport") }
                            = { airport_icao(last.calls[i].value, "departure"),
                                airport_icao(last.calls[i].value, "arrival") }
        /\ CallsFor("airport") # {} =>
              \E i \in CallsFor("aircraft_flight") : BothCodes(last.calls[i].value)

C32_Witness ==
    /\ last.op = "details"
    /\ last.status = 200
    /\ last.body.route = None
    /\ \E i \in CallsFor("aircraft_flight") :
          /\ TruthyDict(last.calls[i].value)
          /\ TruthyStr(airport_icao(last.calls[i].value, "departure"))
          /\ ~TruthyStr(airport_icao(last.calls[i].value, "arrival"))
    /\ airport_cache_key("EGLL") \in DOMAIN cache

(***************************************************************************)
(* get_cached_or_fetch statement by statement, for requests that the       *)
(* threaded server handles at the same time.  Each call reads the clock    *)
(* first (line 339), looks the key up (341-344), fetches (347) and stores   *)
(* the fetched value with the time it read at its start (348).  A value    *)
(* fetched carries the key it was fetched for and the call that fetched    *)
(* it, so that the origin of every stored and returned value can be told.  *)
(***************************************************************************)
Fetched(cache_key, thread, started) == [for |-> cache_key, by |-> thread, started |-> started]

Calling(pc, cache_key, started, data, outcome) ==
    [pc |-> pc, cache_key |-> cache_key, now |-> started, data |-> data, outcome |-> outcome]

Move(thread, calling) ==
    /\ threads' = Put(threads, thread, calling)
    /\ last' = Idle("call")

\* line 339: now = time.time()
Enter(thread, cache_key) ==
    /\ free(thread)
    /\ Move(thread, Calling("lookup", cache_key, now, None, "running"))
    /\ UNCHANGED <<now, cache_vars, VESTABOARD_ENABLED, notified_aircraft, display, board,
                   tracked_aircraft>>

\* lines 341-344: a fresh entry is returned, anything else leads to the fetch
Lookup(thread) ==
    /\ thread \in DOMAIN threads
    /\ threads[thread].pc = "lookup"
    /\ \E c \in {threads[thread]} :
          IF c.cache_key \in DOMAIN cache
          THEN IF is_fresh(c.now, cache[c.cache_key].timestamp)
               THEN Move(thread, Calling("done", c.cache_key, c.now,
                                         cache[c.cache_key].data, "returned"))
               ELSE Move(thread, [c EXCEPT !.pc = "fetch"])
          ELSE Move(thread, [c EXCEPT !.pc = "fetch"])
    /\ UNCHANGED <<now, cache_vars, VESTABOARD_ENABLED, notified_aircraft, display, board,
                   tracked_aircraft>>

\* line 347: the fetch function returns a value or raises
Fetch(thread, raises) ==
    /\ thread \in DOMAIN threads
    /\ threads[thread].pc = "fetch"
    /\ \E c \in {threads[thread]} :
          IF raises
          THEN Move(thread, Calling("done", c.cache_key, c.now, None, "raised"))
          ELSE Move(thread, Calling("store", c.cache_key, c.now,
                                    Fetched(c.cache_key, thread, c.now), "running"))
    /\ UNCHANGED <<now, cache_vars, VESTABOARD_ENABLED, notified_aircraft, display, board,
                   tracked_aircraft>>

\* lines 348-349: cache[cache_key] = (data, now); return data
Store(thread) ==
    /\ thread \in DOMAIN threads
    /\ threads[thread].pc = "store"
    /\ \E c \in {threads[thread]} :
          /\ cache' = cache_store(cache, c.cache_key, c.data, c.now)
          /\ Move(thread, [c EXCEPT !.pc = "done", !.outcome = "returned"])
    /\ UNCHANGED <<now, aircraft_metadata_cache, opensky_csv_db, csv_file, fetch_log,
                   VESTABOARD_ENABLED, notified_aircraft, display, board, tracked_aircraft>>

NextRace ==
    \/ \E d \in {TickStep} : Tick(d)
    \/ \E thread \in Threads, cache_key \in CallKeys : Enter(thread, cache_key)
    \/ \E thread \in Threads : Lookup(thread)
    \/ \E thread \in Threads, raises \in BOOLEAN : Fetch(thread, raises)
    \/ \E thread \in Threads : Store(thread)

SpecRace == InitPoller /\ [][NextRace]_vars

(***************************************************************************)
(* C33: under any interleaving of concurrent get_cached_or_fetch calls on  *)
(* the same key, the cache entry is at every moment absent or one complete *)
(* (value, timestamp) pair written by a single call, never the value of    *)
(* one call with the timestamp of another, and every call that returns     *)
(* returns a value that a fetch for its key produced; racing calls can     *)
(* only fetch the same key more than once.                                 *)
(***************************************************************************)
C33_EntryIsOnePairOfOneCall ==
    /\ \A cache_key \in DOMAIN cache :
          /\ cache[cache_key].data.for = cache_key
          /\ cache[cache_key].data.started = cache[cache_key].timestamp
    /\ \A thread \in DOMAIN threads :
          threads[thread].outcome = "returned" => threads[thread].data.for = threads[thread].cache_key

\* both calls missed the same key, both fetched, both stored: the entry is the pair
\* of the call that stored last, and each call returned the value it fetched
C33_Witness ==
    /\ DOMAIN threads = Threads
    /\ \A thread \in Threads :
          /\ threads[thread].outcome = "returned"
          /\ threads[thread].cache_key = airport_cache_key("EGLL")
          /\ threads[thread].data.by = thread
    /\ threads["t1"].now # threads["t2"].now
    /\ airport_cache_key("EGLL") \in DOMAIN cache
    /\ cache[airport_cache_key("EGLL")].data.by = "t1"

(***************************************************************************)
(* C37: the insertion timestamp stored for a cache key never decreases,    *)
(* under any interleaving of concurrent get_cached_or_fetch calls.         *)
(***************************************************************************)
C37_TimestampNeverDecreases ==
    [][ \A cache_key \in DOMAIN cache :
            cache'[cache_key].timestamp >= cache[cache_key].timestamp ]_vars

(***************************************************************************)
(* C36: when the fetch function raises, get_cached_or_fetch propagates the *)
(* exception and leaves the cache as it was: nothing is stored for the key *)
(* and an expired entry stays in place, so the next call for the key       *)
(* invokes the fetch function again.  Errors are never cached.             *)
(***************************************************************************)
C36_ErrorsAreNeverCached ==
    [][ /\ (last'.op = "get_cached_or_fetch" /\ last'.raised) =>
              /\ cache' = cache
              /\ last'.calls[1].kind = "fetch"
              /\ IF last'.key \in DOMAIN cache'
                 THEN ~is_fresh(now', cache'[last'.key].timestamp)
                 ELSE TRUE
        /\ ( /\ last.op = "get_cached_or_fetch" /\ last.raised
             /\ last'.op = "get_cached_or_fetch" /\ last'.key = last.key ) =>
              last'.calls[1].kind = "fetch" ]_vars

\* a call whose fetch raised while an expired entry with a value was stored
C36_Witness ==
    /\ last.op = "get_cached_or_fetch"
    /\ last.raised
    /\ last.key \in DOMAIN cache
    /\ cache[last.key].data # None
    /\ ~is_fresh(now, cache[last.key].timestamp)

\* the identifiers for which the display accepted a message
Accepted(shown) == { icao24 \in DOMAIN shown : shown[icao24] >= 1 }

NoFetchFailed == \A i \in DOMAIN last.calls : last.calls[i].yield # "error"

(***************************************************************************)
(* C35: whenever the details assembly has both a metadata record and a     *)
(* live position, the response is produced, for every position the         *)
(* upstream can return, a position without an altitude value included,     *)
(* and meta.onGround is true exactly when the altitude of the position is  *)
(* at most 100 ft.                                                         *)
(***************************************************************************)
C35_OnGroundForEveryPosition ==
    (last.op = "details" /\ NoFetchFailed) =>
        \A i \in CallsFor("aircraft_flight"), j \in CallsFor("aircraft_details") :
            ( /\ TruthyDict(last.calls[j].value)
              /\ TruthyDict(last.calls[i].value)
              /\ "position" \in DOMAIN last.calls[i].value ) =>
                /\ last.status = 200
                /\ last.body.meta # None
                /\ \E altitude \in {current_position(last.calls[i].value).altitude} :
                      altitude # <<>> => (last.body.meta.onGround <=> altitude[1] <= 100)

(***************************************************************************)
(* C38: notify_new_aircraft contacts the display only while                *)
(* VESTABOARD_ENABLED is true.  The flag starts false, is set true only by *)
(* a call of load_vestaboard_config that finds a complete configuration,   *)
(* and is never set back to false; a notify request that arrives before    *)
(* any such call is rejected without a send, even when the configuration   *)
(* is valid.                                                               *)
(***************************************************************************)
C38_NoSendBeforeEnabled ==
    [][ /\ (last'.op = "vestaboard_notify" /\ ~VESTABOARD_ENABLED) =>
              /\ ~last'.posted
              /\ last'.status \in {400, 500}
              /\ display' = display /\ board' = board /\ tracked_aircraft' = tracked_aircraft
        /\ VESTABOARD_ENABLED => VESTABOARD_ENABLED'
        /\ (~VESTABOARD_ENABLED /\ VESTABOARD_ENABLED') =>
              /\ last'.op \in {"health_check", "vestaboard_status"}
              /\ last'.config = "complete" ]_vars

\* a request for a new aircraft, with a complete configuration on disk, refused
\* because no request has loaded the configuration yet
C38_Witness ==
    /\ last.op = "vestaboard_notify"
    /\ last.icao24 = "ac1"
    /\ last.config = "complete"
    /\ ~VESTABOARD_ENABLED
    /\ last.status = 500
    /\ ~last.posted
    /\ DOMAIN display = {}

\* the attempt that received the listing: a 200 answer with a JSON list, after
\* attempts that all raised
Answered(attempts, a) ==
    /\ attempts[a].kind = "response" /\ attempts[a].status = 200 /\ parsed(attempts[a])
    /\ \A b \in 1..(a - 1) : attempts[b].kind # "response" \/ ~parsed(attempts[b])

(***************************************************************************)
(* C39: trigger_vestaboard_notifications never propagates an exception to  *)
(* check_for_aircraft: a failure while notifying is not counted as a       *)
(* failed check and does not make the position query be sent again, and a  *)
(* poll that received its listing returns the number of aircraft in it     *)
(* whatever became of the notifications.                                   *)
(***************************************************************************)
C39_NotificationFailureIsContained ==
    Polled =>
        \A a \in 1..MAX_RETRIES :
            Answered(last.attempts, a) =>
                /\ last.aircraft_count = <<Len(last.attempts[a].body.json_array)>>
                /\ last.requests = a
                /\ last.errors = 0

\* the server could not be reached for the first notification: the loop ended
\* there, and the check returned the two aircraft of the listing
C39_Witness ==
    /\ Polled
    /\ last.post = "unreachable"
    /\ Answered(last.attempts, 1)
    /\ last.aircraft_count = <<2>>
    /\ Len(last.posts) = 1
    /\ last.requests = 1
    /\ last.notified = {}

(***************************************************************************)
(* _character_codes_to_text (vestaboard_api.py 117-137) and the round trip *)
(* of a text through the grid of character codes.                          *)
(***************************************************************************)
\* line 73: code_to_char = {v: k for k, v in char_codes.items()}
code_to_char ==
    [code \in { char_codes[char] : char \in DOMAIN char_codes } |->
        CHOOSE char \in DOMAIN char_codes : char_codes[char] = code]

\* lines 130-134: the character of one code, a space for an unknown code
char_of(code) == IF code \in DOMAIN code_to_char THEN code_to_char[code] ELSE " "

RECURSIVE text_line(_, _)
text_line(line, column) ==
    IF column > Len(line) THEN "" ELSE char_of(line[column]) \o text_line(line, column + 1)

\* a line read back with the padding of the grid left in place
decode_line_unstripped(line) == text_line(line, 1)

\* line 135: lines.append(text_line.rstrip())
decode_line(line) == rstrip(text_line(line, 1))

RECURSIVE join_lines(_)
join_lines(lines) ==
    IF Len(lines) = 0 THEN ""
    ELSE IF Len(lines) = 1 THEN lines[1]
    ELSE lines[1] \o "\n" \o join_lines(Tail(lines))

character_codes_to_text(character_codes) ==
    join_lines([row \in DOMAIN character_codes |-> decode_line(character_codes[row])])

\* lines that fit the display, with every character of the table among them,
\* and three that do not fit: a trailing space, a character outside the table,
\* 23 characters
CodecLines ==
    { "", "Hello, World!", " ABCDEFGHIJKLMNOPQRSTU", "vwxyz  1234567890",
      "!@#$()-+&=;:'\"%,./?°", "¡¢£¥¦§©®", "AB ", "35,000 ft ~", "ABCDEFGHIJKLMNOPQRSTUVW" }

CodecTails == { "", "\n3\n4\n5\n 6", "\n3\n4\n5\n6\n7" }

CodecTexts ==
    { l1 \o "\n" \o l2 \o tail : l1 \in CodecLines, l2 \in CodecLines, tail \in CodecTails }
        \cup CodecLines

InitCodec ==
    /\ InitGlobals
    /\ last \in { [op |-> "text", text |-> text] : text \in CodecTexts }

\* the text is converted to the grid and the grid is read back
ReadBack ==
    /\ last.op = "text"
    /\ last' = [op |-> "read_back", text |-> last.text,
                decoded |-> character_codes_to_text(
                                text_to_character_codes(last.text, MAX_LINES, MAX_CHARS))]
    /\ UNCHANGED <<now, cache_vars, notify_vars>>

NextCodec == ReadBack

SpecCodec == InitCodec /\ [][NextCodec]_vars

RECURSIVE upper_text(_)
upper_text(text) ==
    IF Len(text) = 0 THEN "" ELSE upper(char_at(text, 1)) \o upper_text(suffix(text, 2))

\* at most 6 lines of at most 22 characters of the table, none ending in a space
Displayable(text) ==
    LET lines == split_lines(text)
    IN  /\ Len(lines) <= MAX_LINES
        /\ \A i \in DOMAIN lines :
              /\ Len(lines[i]) <= MAX_CHARS
              /\ \A column \in 1..Len(lines[i]) :
                    upper(char_at(lines[i], column)) \in DOMAIN char_codes
              /\ Len(lines[i]) > 0 => char_at(lines[i], Len(lines[i])) # " "

\* the upper-cased lines of the text followed by empty lines up to max_lines
expected_text(text, max_lines) ==
    LET lines == split_lines(text)
    IN  join_lines([row \in 1..max_lines |->
                       IF row <= Len(lines) THEN upper_text(lines[row]) ELSE ""])

(***************************************************************************)
(* C40: encoding and decoding is a round trip on displayable text: for     *)
(* every text of at most 6 lines of at most 22 characters, all of the      *)
(* character table and no line ending in a space,                          *)
(* _character_codes_to_text(_text_to_character_codes(t)) is the            *)
(* upper-cased lines of t followed by empty lines up to 6 lines; and the   *)
(* character table maps distinct characters to distinct codes.             *)
(***************************************************************************)
C40_RoundTripOnDisplayableText ==
    /\ (last.op = "read_back" /\ Displayable(last.text)) =>
           last.decoded = expected_text(last.text, MAX_LINES)
    /\ \A c1 \in DOMAIN char_codes, c2 \in DOMAIN char_codes :
           c1 # c2 => char_codes[c1] # char_codes[c2]

\* a text in lower case with a leading space, a full line and a colour chip,
\* read back in upper case with four empty lines after it
C40_Witness ==
    /\ last.op = "read_back"
    /\ last.text = " ABCDEFGHIJKLMNOPQRSTU\nvwxyz  1234567890"
    /\ last.decoded = " ABCDEFGHIJKLMNOPQRSTU\nVWXYZ  1234567890\n\n\n\n"

====
